---- MODULE Spec2Model ----
(***************************************************************************)
(* Model of the multi-source acquisition core of the portfolio dashboard:  *)
(* the three provider adapters (yahoo_client.py, alpha_vantage_client.py,  *)
(* finnhub_client.py), their embedded rate limiters, and the fallback      *)
(* resolution in app.py get_stock_detail.                                  *)
(*                                                                         *)
(* Python values are tagged records: [t |-> "None"], [t |-> "num", v],     *)
(* [t |-> "str", v] (v a sequence of characters), [t |-> "dict", v] (v a   *)
(* function from keys to values), [t |-> "list", v].  The outcome of       *)
(* evaluating Python code is either such a value or [t |-> "raise", v].    *)
(* Numbers are fixed-point, in hundredths.  Time is in whole seconds.      *)
(***************************************************************************)
EXTENDS Integers, Sequences, FiniteSets, TLC

VARIABLES
    now,      \* time.time(), in seconds
    av,       \* the AlphaVantageClient instance of app.py: its budget fields
    fh,       \* the FinnhubClient instance of app.py: its budget fields
    db,       \* the rows of the tables stocks and stock_prices
    op,       \* the operation executed last: its name, arguments and inputs
    trace,    \* what the operation executed last did, in order
    result,   \* what the operation executed last returned
    sent,     \* the outbound requests issued so far, counted per adapter
    fuel,     \* how many more operations the environment starts (where bounded)
    calls     \* the calls in progress, one per request thread, where they interleave

vars == <<now, av, fh, db, op, trace, result, sent, fuel, calls>>

----------------------------------------------------------------------------
(* Python values *)

None == [t |-> "None"]

Num(n) == [t |-> "num", v |-> n]

Str(s) == [t |-> "str", v |-> s]

Dict(f) == [t |-> "dict", v |-> f]

List(s) == [t |-> "list", v |-> s]

Raise(e) == [t |-> "raise", v |-> e]

\* float('nan'), as pandas reports a missing cell
NaN == [t |-> "nan"]

EmptyDict == Dict(<<>>)

IsRaise(x) == x.t = "raise"

\* bool(x): None, 0, "", {} and [] are falsy
Truthy(x) ==
    CASE x.t = "None" -> FALSE
      [] x.t = "num"  -> x.v # 0
      [] x.t = "str"  -> Len(x.v) > 0
      [] x.t = "list" -> Len(x.v) > 0
      [] x.t = "dict" -> DOMAIN x.v # {}
      [] OTHER        -> TRUE

\* the entries of a dict in insertion order, as <<key, value>> pairs, are kept
\* when the order matters: [t |-> "dict", v |-> function, items |-> pairs]
ODict(pairs) ==
    [t |-> "dict",
     v |-> [k \in {pairs[i][1] : i \in 1..Len(pairs)} |->
               (pairs[CHOOSE i \in 1..Len(pairs) : pairs[i][1] = k])[2]],
     items |-> pairs]

\* key in x  (membership test; a number or None on the right raises TypeError)
HasKey(x, k) == x.t = "dict" /\ k \in DOMAIN x.v

InRaises(x) == x.t \in {"num", "None"}

\* x.get(k, default) on a dict
Get(x, k, default) == IF k \in DOMAIN x.v THEN x.v[k] ELSE default

----------------------------------------------------------------------------
(* Numeric conversion: float(), int(), str.replace *)

Digits == {"0", "1", "2", "3", "4", "5", "6", "7", "8", "9"}

\* Body of x, where x is the value of an expression that is evaluated once
Bind(value, Body(_)) == CHOOSE r \in { Body(x) : x \in { value } } : TRUE

DigitVal(c) ==
    CASE c = "0" -> 0 [] c = "1" -> 1 [] c = "2" -> 2 [] c = "3" -> 3
      [] c = "4" -> 4 [] c = "5" -> 5 [] c = "6" -> 6 [] c = "7" -> 7
      [] c = "8" -> 8 [] c = "9" -> 9

RECURSIVE DigitsVal(_)
DigitsVal(s) ==
    Bind(s, LAMBDA d :
        IF d = <<>> THEN 0 ELSE DigitsVal(SubSeq(d, 1, Len(d) - 1)) * 10 + DigitVal(d[Len(d)]))

AllDigits(s) == \A i \in 1..Len(s) : s[i] \in Digits

\* position of the first "." in s, or 0
DotPos(s) ==
    IF \E i \in 1..Len(s) : s[i] = "."
    THEN CHOOSE i \in 1..Len(s) : s[i] = "." /\ \A j \in 1..(i - 1) : s[j] # "."
    ELSE 0

Unsigned(s) == IF Len(s) > 0 /\ s[1] \in {"-", "+"} THEN Tail(s) ELSE s

IntPart(s) == IF DotPos(s) = 0 THEN s ELSE SubSeq(s, 1, DotPos(s) - 1)

FracPart(s) == IF DotPos(s) = 0 THEN <<>> ELSE SubSeq(s, DotPos(s) + 1, Len(s))

\* the decimal literals float() accepts: [sign] digits [. digits], one digit at least
IsFloatLiteral(s) ==
    Bind(Unsigned(s), LAMBDA u :
        /\ AllDigits(IntPart(u))
        /\ AllDigits(FracPart(u))
        /\ Len(IntPart(u)) + Len(FracPart(u)) > 0)

IsIntLiteral(s) == Bind(Unsigned(s), LAMBDA u : Len(u) > 0 /\ AllDigits(u))

\* value of a decimal literal in hundredths (digits after the second are dropped)
LiteralValue(s) ==
    Bind(Unsigned(s), LAMBDA u :
    Bind(FracPart(u), LAMBDA f :
    Bind(IF Len(f) >= 2 THEN SubSeq(f, 1, 2)
         ELSE IF Len(f) = 1 THEN f \o <<"0">> ELSE <<"0", "0">>, LAMBDA f2 :
    Bind(DigitsVal(IntPart(u)) * 100 + DigitsVal(f2), LAMBDA mag :
        IF Len(s) > 0 /\ s[1] = "-" THEN 0 - mag ELSE mag))))

\* float(x)
FloatOf(x) ==
    Bind(x, LAMBDA a :
        CASE a.t = "num" -> a
          [] a.t = "nan" -> a
          [] a.t = "str" -> IF IsFloatLiteral(a.v) THEN Num(LiteralValue(a.v))
                            ELSE Raise("ValueError")
          [] OTHER       -> Raise("TypeError"))

\* truncation toward zero of a value in hundredths
Trunc(n) == IF n >= 0 THEN (n \div 100) * 100 ELSE 0 - (((0 - n) \div 100) * 100)

\* int(x)
IntOf(x) ==
    Bind(x, LAMBDA a :
        CASE a.t = "num" -> Num(Trunc(a.v))
          [] a.t = "nan" -> Raise("ValueError")
          [] a.t = "str" -> IF IsIntLiteral(a.v) THEN Num(LiteralValue(a.v))
                            ELSE Raise("ValueError")
          [] OTHER       -> Raise("TypeError"))

\* s.replace(c, ""): every occurrence of the character c is removed
RECURSIVE RemoveChar(_, _)
RemoveChar(s, c) ==
    Bind(s, LAMBDA r :
        IF r = <<>> THEN <<>>
        ELSE IF Head(r) = c THEN RemoveChar(Tail(r), c)
        ELSE <<Head(r)>> \o RemoveChar(Tail(r), c))

\* s.replace(a, b) for single characters
ReplaceChar(s, a, b) == [i \in 1..Len(s) |-> IF s[i] = a THEN b ELSE s[i]]

\* x.replace("%", "") where x is the value of a payload field
StripPercent(x) ==
    IF x.t = "str" THEN Str(RemoveChar(x.v, "%")) ELSE Raise("AttributeError")

\* a body that is not guarded: what it raises reaches the caller
TryExcept_unguarded(r) == r

\* try: body  except Exception: return None
TryExcept(r) == Bind(r, LAMBDA x : IF IsRaise(x) THEN None ELSE x)

----------------------------------------------------------------------------
(* Program constants *)

\* alpha_vantage_client.py: 12 seconds between requests
MinSpacing == 12

\* alpha_vantage_client.py: daily limit
DailyCap == 25

\* finnhub_client.py: max 60 requests per minute
WindowCap == 60

\* finnhub_client.py: length of the window in seconds
WindowLength == 60

\* finnhub_client.py: marketCapitalization is reported in millions
Million == 1000000

(* Bounds of the model *)

\* the clock value at which the process starts (time.time() is far from 0)
StartTime == 100

\* the number of operations of a run, where the run is bounded by it
MaxOps == 2

\* the number of requests of a run that fail in transport
MaxErrors == 1

\* time.sleep returns this many seconds late
Oversleeps == {0, 1}

\* there is no latency and no oversleep where the timing does not matter
Instant == {0}

----------------------------------------------------------------------------
(* Ghost record of what an operation did, in order *)

\* e: "call" (a public adapter operation is entered), "gate" (a rate-limit
\* check is evaluated), "sleep" (time.sleep), "reset" (a new window is begun),
\* "http" (an outbound request), "log" (an exception of the request is
\* logged), "store" (the database is written)
Ev(e, who, what, at, dur) == [e |-> e, who |-> who, what |-> what, at |-> at, dur |-> dur]

\* datetime.now().isoformat()
Timestamp(t) == [t |-> "instant", v |-> t]

----------------------------------------------------------------------------
(* YahooFinanceClient *)

Yahoo_missing_price(info) == ~Truthy(info) \/ ~HasKey(info, "regularMarketPrice")

Yahoo_stock_data(symbol, info, t) ==
    Dict(  "symbol" :> Str(symbol)
        @@ "name" :> Get(info, "longName", Str(symbol))
        @@ "price" :> Get(info, "regularMarketPrice", Num(0))
        @@ "change" :> Get(info, "regularMarketChange", Num(0))
        @@ "change_percent" :> Get(info, "regularMarketChangePercent", Num(0))
        @@ "volume" :> Get(info, "regularMarketVolume", Num(0))
        @@ "market_cap" :> Get(info, "marketCap", Num(0))
        @@ "pe_ratio" :> Get(info, "trailingPE", Num(0))
        @@ "dividend_yield" :> Get(info, "dividendYield", Num(0))
        @@ "sector" :> Get(info, "sector", Str(<<"Unknown">>))
        @@ "industry" :> Get(info, "industry", Str(<<"Unknown">>))
        @@ "country" :> Get(info, "country", Str(<<"Unknown">>))
        @@ "currency" :> Get(info, "currency", Str(<<"USD">>))
        @@ "exchange" :> Get(info, "exchange", Str(<<"Unknown">>))
        @@ "source" :> Str(<<"yahoo_finance">>)
        @@ "timestamp" :> Timestamp(t))

\* get_stock_data(symbol): info is what ticker.info evaluates to (a value, or
\* a raised exception), lat the time the library call takes
Yahoo_get_stock_data(symbol0, t, info, lat) ==
    LET symbol == ReplaceChar(symbol0, ":", ".")
        t1     == t + lat
        body   == IF IsRaise(info) THEN info
                  ELSE IF Truthy(info) /\ InRaises(info) THEN Raise("TypeError")
                  ELSE IF Yahoo_missing_price(info) THEN None
                  ELSE IF info.t # "dict" THEN Raise("AttributeError")
                  ELSE Yahoo_stock_data(symbol, info, t1)
    IN  [ret    |-> TryExcept(body),
         now    |-> t1,
         events |-> << Ev("call", "yahoo_finance", "get_stock_data", t, 0),
                       Ev("http", "yahoo_finance", "info", t, 0) >>]

----------------------------------------------------------------------------
(* What requests.get(...) does: it raises (transport error, timeout), or    *)
(* returns a response with a status code whose .json() is body (a value, or *)
(* a raised JSONDecodeError)                                                *)

Exc == [kind |-> "exc"]

Http(status, body) == [kind |-> "http", status |-> status, body |-> body]

\* d[k]
Item(d, k) ==
    IF d.t # "dict" THEN Raise("TypeError")
    ELSE IF k \in DOMAIN d.v THEN d.v[k] ELSE Raise("KeyError")

\* lexicographic order of strings of digits and "-" (as Python compares str)
Ord(c) == IF c = "-" THEN 0 ELSE 1 + DigitVal(c)

RECURSIVE StrLess(_, _)
StrLess(a, b) ==
    IF b = <<>> THEN FALSE
    ELSE IF a = <<>> THEN TRUE
    ELSE IF Ord(Head(a)) # Ord(Head(b)) THEN Ord(Head(a)) < Ord(Head(b))
    ELSE StrLess(Tail(a), Tail(b))

\* bars.sort(key=lambda x: x['date'], reverse=True): stable, so bars of equal
\* date keep the order they had
RECURSIVE InsertDesc(_, _)
InsertDesc(sorted, bar) ==
    Bind(sorted, LAMBDA s :
        IF s = <<>> THEN <<bar>>
        ELSE IF StrLess(Head(s).v["date"].v, bar.v["date"].v)
             THEN <<bar>> \o s
             ELSE <<Head(s)>> \o InsertDesc(Tail(s), bar))

RECURSIVE SortNewestFirst(_)
SortNewestFirst(bars) ==
    Bind(bars, LAMBDA b :
        IF b = <<>> THEN <<>>
        ELSE InsertDesc(SortNewestFirst(SubSeq(b, 1, Len(b) - 1)), b[Len(b)]))

\* the first raised outcome in a sequence of outcomes, or the list of them
ListOrRaise(seq) ==
    Bind(seq, LAMBDA s :
        IF \E i \in 1..Len(s) : IsRaise(s[i])
        THEN s[CHOOSE i \in 1..Len(s) : IsRaise(s[i]) /\ \A j \in 1..(i - 1) : ~IsRaise(s[j])]
        ELSE List(s))

\* a dict literal whose values are evaluated in the order of keys: the first
\* value that raises is the outcome
DictOrRaise(keys, f) ==
    Bind(f, LAMBDA g :
        IF \E i \in 1..Len(keys) : IsRaise(g[keys[i]])
        THEN g[keys[CHOOSE i \in 1..Len(keys) :
                      IsRaise(g[keys[i]]) /\ \A j \in 1..(i - 1) : ~IsRaise(g[keys[j]])]]
        ELSE Dict(g))

----------------------------------------------------------------------------
(* AlphaVantageClient *)

AVName == "alpha_vantage"

\* __init__
AV_init == [request_count |-> 0, last_request_time |-> 0]

\* the two assignments after requests.get returned
AV_count_request(self, t) ==
    [request_count |-> self.request_count + 1, last_request_time |-> t]

\* the updates of the budget by a request that was answered (resp.kind =
\* "http") or that raised (resp.kind = "exc"), finished at t
AV_after_request(self, resp, t) ==
    IF resp.kind = "exc" THEN self ELSE AV_count_request(self, t)

\* how long _make_request sleeps when entered at t (0: it does not sleep)
AV_sleep_time(self, t) ==
    IF t - self.last_request_time < MinSpacing
    THEN MinSpacing - (t - self.last_request_time)
    ELSE 0

\* _make_request re-issuing once a request that raised
AV_make_request_retry(self, t, fn, resp, lat, over) ==
    LET dur   == AV_sleep_time(self, t)
        t1    == IF dur > 0 THEN t + dur + over ELSE t
        t2    == t1 + lat
    IN  [self   |-> AV_after_request(self, resp, t2),
         ret    |-> IF resp.kind = "http" /\ resp.status = 200 THEN TryExcept(resp.body) ELSE None,
         now    |-> t2,
         events |-> << Ev("gate", AVName, "spacing", t, 0) >>
                    \o (IF dur > 0 THEN << Ev("sleep", AVName, "spacing", t, dur) >> ELSE <<>>)
                    \o << Ev("http", AVName, fn, t1, lat) >>
                    \o (IF resp.kind = "exc"
                        THEN << Ev("http", AVName, fn, t2, 0), Ev("log", AVName, "error", t2, 0) >>
                        ELSE <<>>)]

\* _make_request(params), entered at t; fn is params['function']
AV_make_request(self, t, fn, resp, lat, over) ==
    LET dur   == AV_sleep_time(self, t)
        t1    == IF dur > 0 THEN t + dur + over ELSE t
        t2    == t1 + lat
        body  == IF resp.kind = "exc" THEN Raise("RequestException")
                 ELSE IF resp.status = 200 THEN resp.body
                 ELSE None
    IN  [self   |-> AV_after_request(self, resp, t2),
         ret    |-> TryExcept(body),
         now    |-> t2,
         events |-> << Ev("gate", AVName, "spacing", t, 0) >>
                    \o (IF dur > 0 THEN << Ev("sleep", AVName, "spacing", t, dur) >> ELSE <<>>)
                    \o << Ev("http", AVName, fn, t1, lat) >>
                    \o (IF resp.kind = "exc" THEN << Ev("log", AVName, "error", t2, 0) >> ELSE <<>>)]

\* the test of the daily limit passing the 25th counted request
AV_budget_exhausted_late(self) == self.request_count > DailyCap

\* "Skip if we've hit rate limits"
AV_budget_exhausted(self) == self.request_count >= DailyCap

\* the test of the payload without the test for '05. price'
AV_missing_price_lax(data) ==
    \/ ~Truthy(data) \/ ~HasKey(data, "Global Quote")
    \/ ~Truthy(data.v["Global Quote"])

AV_missing_price(data) ==
    \/ ~Truthy(data) \/ ~HasKey(data, "Global Quote")
    \/ ~Truthy(data.v["Global Quote"]) \/ ~HasKey(data.v["Global Quote"], "05. price")

AV_quote_keys ==
    << "symbol", "name", "price", "change", "change_percent", "volume", "high",
       "low", "open", "previous_close", "source", "timestamp" >>

AV_change_percent(quote) ==
    Bind(StripPercent(Get(quote, "10. change percent", Str(<<"0", "%">>))),
         LAMBDA raw : IF IsRaise(raw) THEN raw ELSE FloatOf(raw))

AV_stock_data(symbol, quote, t) ==
    DictOrRaise(AV_quote_keys,
           "symbol" :> Str(symbol)
        @@ "name" :> Str(symbol)
        @@ "price" :> FloatOf(Get(quote, "05. price", Num(0)))
        @@ "change" :> FloatOf(Get(quote, "09. change", Num(0)))
        @@ "change_percent" :> AV_change_percent(quote)
        @@ "volume" :> IntOf(Get(quote, "06. volume", Num(0)))
        @@ "high" :> FloatOf(Get(quote, "03. high", Num(0)))
        @@ "low" :> FloatOf(Get(quote, "04. low", Num(0)))
        @@ "open" :> FloatOf(Get(quote, "02. open", Num(0)))
        @@ "previous_close" :> FloatOf(Get(quote, "08. previous close", Num(0)))
        @@ "source" :> Str(<<"alpha_vantage">>)
        @@ "timestamp" :> Timestamp(t))

\* the statements of get_stock_data after data = self._make_request(params)
AV_quote_of(symbol, data, t) ==
    IF Truthy(data) /\ InRaises(data) THEN Raise("TypeError")
    ELSE IF Truthy(data) /\ HasKey(data, "Global Quote")
            /\ Truthy(data.v["Global Quote"]) /\ InRaises(data.v["Global Quote"])
         THEN Raise("TypeError")
    ELSE IF AV_missing_price(data) THEN None
    ELSE AV_stock_data(symbol, data.v["Global Quote"], t)

\* get_stock_data(symbol), entered at t
AV_get_stock_data(self, symbol, t, resp, lat, over) ==
    LET entry == << Ev("call", AVName, "get_stock_data", t, 0),
                    Ev("gate", AVName, "daily", t, 0) >>
        r     == AV_make_request(self, t, "GLOBAL_QUOTE", resp, lat, over)
    IN  IF AV_budget_exhausted(self)
        THEN [self |-> self, ret |-> None, now |-> t, events |-> entry]
        ELSE [self   |-> r.self,
              ret    |-> TryExcept(AV_quote_of(symbol, r.ret, r.now)),
              now    |-> r.now,
              events |-> entry \o r.events]

AV_bar(date, values) ==
    DictOrRaise(<< "date", "open", "high", "low", "close", "volume" >>,
           "date" :> Str(date)
        @@ "open" :> (LET x == Item(values, "1. open") IN IF IsRaise(x) THEN x ELSE FloatOf(x))
        @@ "high" :> (LET x == Item(values, "2. high") IN IF IsRaise(x) THEN x ELSE FloatOf(x))
        @@ "low" :> (LET x == Item(values, "3. low") IN IF IsRaise(x) THEN x ELSE FloatOf(x))
        @@ "close" :> (LET x == Item(values, "4. close") IN IF IsRaise(x) THEN x ELSE FloatOf(x))
        @@ "volume" :> (LET x == Item(values, "5. volume") IN IF IsRaise(x) THEN x ELSE IntOf(x)))

\* the statements of get_historical_data after data = self._make_request(params)
AV_series_of(data) ==
    IF Truthy(data) /\ InRaises(data) THEN Raise("TypeError")
    ELSE IF ~Truthy(data) \/ ~HasKey(data, "Time Series (Daily)") THEN None
    ELSE LET time_series == data.v["Time Series (Daily)"]
         IN  IF time_series.t # "dict" THEN Raise("AttributeError")
             ELSE LET bars == ListOrRaise([i \in 1..Len(time_series.items) |->
                                  AV_bar(time_series.items[i][1], time_series.items[i][2])])
                  IN  IF IsRaise(bars) THEN bars ELSE List(SortNewestFirst(bars.v))

\* get_historical_data(symbol, outputsize), entered at t
AV_get_historical_data(self, symbol, t, resp, lat, over) ==
    LET entry == << Ev("call", AVName, "get_historical_data", t, 0),
                    Ev("gate", AVName, "daily", t, 0) >>
        r     == AV_make_request(self, t, "TIME_SERIES_DAILY", resp, lat, over)
    IN  IF AV_budget_exhausted(self)
        THEN [self |-> self, ret |-> None, now |-> t, events |-> entry]
        ELSE [self   |-> r.self,
              ret    |-> TryExcept(AV_series_of(r.ret)),
              now    |-> r.now,
              events |-> entry \o r.events]

----------------------------------------------------------------------------
(* FinnhubClient *)

FHName == "finnhub"

SecondsPerDay == 86400

\* __init__, run at instant t
FH_init(t) == [request_count |-> 0, last_minute_start |-> t]

\* self.request_count += 1 after requests.get returned
FH_count_request(self) == [self EXCEPT !.request_count = @ + 1]

\* the update of the budget by a request that was answered or that raised
FH_after_request(self, resp) ==
    IF resp.kind = "exc" THEN self ELSE FH_count_request(self)

\* the first test of _make_request: a window that has elapsed is replaced
FH_roll_window(self, t) ==
    IF t - self.last_minute_start >= WindowLength
    THEN [request_count |-> 0, last_minute_start |-> t]
    ELSE self

\* the test of the cap passing the request that fills the window
FH_sleep_time_late(s, t) ==
    IF s.request_count > WindowCap /\ WindowLength - (t - s.last_minute_start) > 0
    THEN WindowLength - (t - s.last_minute_start)
    ELSE 0

\* how long _make_request sleeps when the budget is s at instant t (0: no sleep)
FH_sleep_time(s, t) ==
    IF s.request_count >= WindowCap /\ WindowLength - (t - s.last_minute_start) > 0
    THEN WindowLength - (t - s.last_minute_start)
    ELSE 0

\* _make_request(endpoint, params), entered at t
FH_make_request(self, t, endpoint, resp, lat, over) ==
    LET s1    == FH_roll_window(self, t)
        dur   == FH_sleep_time(s1, t)
        t1    == IF dur > 0 THEN t + dur + over ELSE t
        s2    == IF dur > 0 THEN [request_count |-> 0, last_minute_start |-> t1] ELSE s1
        t2    == t1 + lat
        body  == IF resp.kind = "exc" THEN Raise("RequestException")
                 ELSE IF resp.status = 200 THEN resp.body
                 ELSE None
    IN  [self   |-> FH_after_request(s2, resp),
         ret    |-> TryExcept(body),
         now    |-> t2,
         events |-> << Ev("gate", FHName, "window", t, 0) >>
                    \o (IF s1 # self THEN << Ev("reset", FHName, "elapsed", t, 0) >> ELSE <<>>)
                    \o (IF dur > 0 THEN << Ev("sleep", FHName, "window", t, dur),
                                           Ev("reset", FHName, "slept", t1, 0) >> ELSE <<>>)
                    \o << Ev("http", FHName, endpoint, t1, lat) >>
                    \o (IF resp.kind = "exc" THEN << Ev("log", FHName, "error", t2, 0) >> ELSE <<>>)]

FH_missing_price(quote_data) == ~Truthy(quote_data) \/ ~HasKey(quote_data, "c")

FH_quote_keys ==
    << "symbol", "name", "price", "change", "change_percent", "high", "low",
       "open", "previous_close", "source", "timestamp" >>

\* profile_data.get('marketCapitalization', 0) * 1000000 if ... else 0
FH_market_cap(profile_data) ==
    LET mc == Get(profile_data, "marketCapitalization", Num(0))
    IN  IF ~Truthy(mc) THEN Num(0)
        ELSE IF mc.t = "num" THEN Num(mc.v * Million)
        ELSE Raise("TypeError")

\* the profile fields with "Unknown" for a currency the profile lacks
FH_profile_fields_unknown(profile_data) ==
       "country" :> Get(profile_data, "country", Str(<<"Unknown">>))
    @@ "currency" :> Get(profile_data, "currency", Str(<<"Unknown">>))
    @@ "exchange" :> Get(profile_data, "exchange", Str(<<"Unknown">>))
    @@ "industry" :> Get(profile_data, "finnhubIndustry", Str(<<"Unknown">>))
    @@ "market_cap" :> FH_market_cap(profile_data)
    @@ "website" :> Get(profile_data, "weburl", Str(<<>>))
    @@ "logo" :> Get(profile_data, "logo", Str(<<>>))

\* stock_data.update({...}) when profile_data is truthy
FH_profile_fields(profile_data) ==
       "country" :> Get(profile_data, "country", Str(<<"Unknown">>))
    @@ "currency" :> Get(profile_data, "currency", Str(<<"USD">>))
    @@ "exchange" :> Get(profile_data, "exchange", Str(<<"Unknown">>))
    @@ "industry" :> Get(profile_data, "finnhubIndustry", Str(<<"Unknown">>))
    @@ "market_cap" :> FH_market_cap(profile_data)
    @@ "website" :> Get(profile_data, "weburl", Str(<<>>))
    @@ "logo" :> Get(profile_data, "logo", Str(<<>>))

FH_stock_data(symbol, quote_data, profile_data, t) ==
    IF quote_data.t # "dict" \/ (Truthy(profile_data) /\ profile_data.t # "dict")
    THEN Raise("AttributeError")
    ELSE LET base == DictOrRaise(FH_quote_keys,
                    "symbol" :> Str(symbol)
                 @@ "name" :> (IF Truthy(profile_data)
                               THEN Get(profile_data, "name", Str(symbol))
                               ELSE Str(symbol))
                 @@ "price" :> FloatOf(Get(quote_data, "c", Num(0)))
                 @@ "change" :> FloatOf(Get(quote_data, "d", Num(0)))
                 @@ "change_percent" :> FloatOf(Get(quote_data, "dp", Num(0)))
                 @@ "high" :> FloatOf(Get(quote_data, "h", Num(0)))
                 @@ "low" :> FloatOf(Get(quote_data, "l", Num(0)))
                 @@ "open" :> FloatOf(Get(quote_data, "o", Num(0)))
                 @@ "previous_close" :> FloatOf(Get(quote_data, "pc", Num(0)))
                 @@ "source" :> Str(<<"finnhub">>)
                 @@ "timestamp" :> Timestamp(t))
         IN  IF IsRaise(base) \/ ~Truthy(profile_data) THEN base
             ELSE IF IsRaise(FH_market_cap(profile_data)) THEN FH_market_cap(profile_data)
             ELSE Dict(FH_profile_fields(profile_data) @@ base.v)

\* get_stock_data(symbol), entered at t: the quote request, then (when the
\* quote has a price) the profile request
FH_get_stock_data(self, symbol, t, qresp, presp, lat, over) ==
    LET entry == << Ev("call", FHName, "get_stock_data", t, 0) >>
        q     == FH_make_request(self, t, "/quote", qresp, lat, over)
        p     == FH_make_request(q.self, q.now, "/stock/profile2", presp, lat, over)
    IN  IF Truthy(q.ret) /\ InRaises(q.ret)
        THEN [self |-> q.self, ret |-> None, now |-> q.now, events |-> entry \o q.events]
        ELSE IF FH_missing_price(q.ret)
        THEN [self |-> q.self, ret |-> None, now |-> q.now, events |-> entry \o q.events]
        ELSE [self   |-> p.self,
              ret    |-> TryExcept(FH_stock_data(symbol, q.ret, p.ret, p.now)),
              now    |-> p.now,
              events |-> entry \o q.events \o p.events]

DigitChar(n) ==
    CASE n = 0 -> "0" [] n = 1 -> "1" [] n = 2 -> "2" [] n = 3 -> "3" [] n = 4 -> "4"
      [] n = 5 -> "5" [] n = 6 -> "6" [] n = 7 -> "7" [] n = 8 -> "8" [] n = 9 -> "9"

\* n written with w digits, zero-padded
RECURSIVE Padded(_, _)
Padded(n, w) ==
    IF w = 0 THEN <<>>
    ELSE Bind(n, LAMBDA k : Padded(k \div 10, w - 1) \o <<DigitChar(k % 10)>>)

\* the proleptic Gregorian date <<year, month, day>> of a day number counted
\* from 1970-01-01
CivilFromDays(days) ==
    Bind(days + 719468, LAMBDA z :
    Bind(z \div 146097, LAMBDA era :
    Bind(z - era * 146097, LAMBDA doe :
    Bind((doe - doe \div 1460 + doe \div 36524 - doe \div 146096) \div 365, LAMBDA yoe :
    Bind(doe - (365 * yoe + yoe \div 4 - yoe \div 100), LAMBDA doy :
    Bind((5 * doy + 2) \div 153, LAMBDA mp :
    Bind(IF mp < 10 THEN mp + 3 ELSE mp - 9, LAMBDA m :
        << yoe + era * 400 + (IF m <= 2 THEN 1 ELSE 0), m,
           doy - (153 * mp + 2) \div 5 + 1 >>)))))))

\* datetime.fromtimestamp(ts).strftime('%Y-%m-%d'), the process running in UTC
DateOfTimestamp(ts) ==
    Bind(CivilFromDays(ts \div SecondsPerDay), LAMBDA ymd :
        Padded(ymd[1], 4) \o <<"-">> \o Padded(ymd[2], 2) \o <<"-">> \o Padded(ymd[3], 2))

\* a[i] on a list, 0-based
Index(a, i) ==
    IF a.t # "list" THEN Raise("TypeError")
    ELSE IF i + 1 \in 1..Len(a.v) THEN a.v[i + 1] ELSE Raise("IndexError")

FH_float_at(a, i) == Bind(Index(a, i), LAMBDA x : IF IsRaise(x) THEN x ELSE FloatOf(x))

FH_int_at(a, i) == Bind(Index(a, i), LAMBDA x : IF IsRaise(x) THEN x ELSE IntOf(x))

FH_date_at(a, i) ==
    Bind(Index(a, i), LAMBDA x :
        IF IsRaise(x) THEN x
        ELSE IF x.t # "num" THEN Raise("TypeError")
        ELSE Str(DateOfTimestamp(x.v)))

\* the body of the loop over range(len(timestamps))
FH_bar(data, i) ==
    DictOrRaise(<< "date", "open", "high", "low", "close", "volume" >>,
           "date" :> FH_date_at(Get(data, "t", List(<<>>)), i)
        @@ "open" :> FH_float_at(Get(data, "o", List(<<>>)), i)
        @@ "high" :> FH_float_at(Get(data, "h", List(<<>>)), i)
        @@ "low" :> FH_float_at(Get(data, "l", List(<<>>)), i)
        @@ "close" :> FH_float_at(Get(data, "c", List(<<>>)), i)
        @@ "volume" :> FH_int_at(Get(data, "v", List(<<>>)), i))

\* the statements of get_historical_data after data = self._make_request(...)
FH_series_of(data) ==
    IF ~Truthy(data) THEN None
    ELSE IF data.t # "dict" THEN Raise("AttributeError")
    ELSE IF Get(data, "s", None) # Str(<<"ok">>) THEN None
    ELSE LET timestamps == Get(data, "t", List(<<>>))
         IN  IF timestamps.t # "list" THEN Raise("TypeError")
             ELSE Bind(ListOrRaise([i \in 1..Len(timestamps.v) |-> FH_bar(data, i - 1)]),
                       LAMBDA bars : IF IsRaise(bars) THEN bars ELSE List(SortNewestFirst(bars.v)))

\* get_historical_data issuing its request without _make_request
FH_get_historical_data_ungated(self, symbol, t, resp, lat, over) ==
    LET body == IF resp.kind = "exc" THEN Raise("RequestException")
                ELSE IF resp.status = 200 THEN resp.body
                ELSE None
    IN  [self   |-> FH_after_request(self, resp),
         ret    |-> TryExcept(FH_series_of(TryExcept(body))),
         now    |-> t + lat,
         events |-> << Ev("call", FHName, "get_historical_data", t, 0),
                       Ev("http", FHName, "/stock/candle", t, lat) >>
                    \o (IF resp.kind = "exc" THEN << Ev("log", FHName, "error", t + lat, 0) >> ELSE <<>>)]

\* get_historical_data(symbol, days), entered at t
FH_get_historical_data(self, symbol, t, resp, lat, over) ==
    LET r == FH_make_request(self, t, "/stock/candle", resp, lat, over)
    IN  [self   |-> r.self,
         ret    |-> TryExcept(FH_series_of(r.ret)),
         now    |-> r.now,
         events |-> << Ev("call", FHName, "get_historical_data", t, 0) >> \o r.events]

----------------------------------------------------------------------------
(* YahooFinanceClient.get_historical_data *)

\* one row of the DataFrame returned by ticker.history: row.date is the index
\* entry (a day number counted from 1970-01-01)
Yahoo_bar(row) ==
    DictOrRaise(<< "date", "open", "high", "low", "close", "volume" >>,
           "date" :> Str(DateOfTimestamp(row.date * SecondsPerDay))
        @@ "open" :> FloatOf(row.Open)
        @@ "high" :> FloatOf(row.High)
        @@ "low" :> FloatOf(row.Low)
        @@ "close" :> FloatOf(row.Close)
        @@ "volume" :> IntOf(row.Volume))

\* get_historical_data(symbol, period): hist is what ticker.history returns (a
\* list of rows, or a raised exception)
Yahoo_get_historical_data(symbol0, t, hist, lat) ==
    LET t1   == t + lat
        body == IF IsRaise(hist) THEN hist
                ELSE IF hist.v = <<>> THEN None
                ELSE ListOrRaise([i \in 1..Len(hist.v) |-> Yahoo_bar(hist.v[i])])
    IN  [ret    |-> TryExcept(body),
         now    |-> t1,
         events |-> << Ev("call", "yahoo_finance", "get_historical_data", t, 0),
                       Ev("http", "yahoo_finance", "history", t, 0) >>]

----------------------------------------------------------------------------
(* DataProcessor.get_historical_data and DatabaseManager.store_stock_data *)

YahooName == "yahoo_finance"

\* data_processor.get_historical_data(symbol, years): a generated sample
\* series that ends on the current day (one bar of it is kept)
DP_get_historical_data(symbol, t) ==
    List(<< Dict("date" :> Str(DateOfTimestamp(t)) @@ "close" :> Num(10000)
                 @@ "volume" :> Num(10000000)) >>)

\* the tables, each the sequence of its rows in the order of insertion;
\* api_usage is the table log_api_usage writes
DB_init == [stocks |-> <<>>, stock_prices |-> <<>>, api_usage |-> <<>>]

\* the columns of the UNIQUE constraint of each table
DB_stocks_unique == { "symbol" }

DB_stock_prices_unique == { "symbol", "date" }

\* INSERT INTO a table without UNIQUE constraint
DB_insert(rows, row) == rows \o << row >>

\* the statement as a plain INSERT that keeps the rows of equal key
DB_insert_or_replace_kept(rows, row, unique) == rows \o << row >>

\* INSERT OR REPLACE INTO: the rows that agree with the new row on the
\* columns of the UNIQUE constraint are deleted, then the row is inserted
DB_insert_or_replace(rows, row, unique) ==
    SelectSeq(rows, LAMBDA r : \E c \in unique : r[c] # row[c]) \o << row >>

\* store_stock_data(symbol, stock_data) at instant t: two INSERT OR REPLACE
\* statements, committed together; ok is FALSE when sqlite raises, which the
\* method logs and swallows
DB_store_stock_data(d, symbol, stock_data, t, ok) ==
    IF ~ok THEN d
    ELSE [d EXCEPT
            !.stocks = DB_insert_or_replace(@,
                         [symbol   |-> symbol,
                          name     |-> Get(stock_data, "name", Str(<<>>)),
                          sector   |-> Get(stock_data, "sector", Str(<<>>)),
                          industry |-> Get(stock_data, "industry", Str(<<>>)),
                          country  |-> Get(stock_data, "country", Str(<<>>)),
                          exchange |-> Get(stock_data, "exchange", Str(<<>>)),
                          currency |-> Get(stock_data, "currency", Str(<<"USD">>))],
                         DB_stocks_unique),
            !.stock_prices = DB_insert_or_replace(@,
                         [symbol      |-> symbol,
                          date        |-> DateOfTimestamp(t),
                          open_price  |-> Get(stock_data, "open", Num(0)),
                          high_price  |-> Get(stock_data, "high", Num(0)),
                          low_price   |-> Get(stock_data, "low", Num(0)),
                          close_price |-> Get(stock_data, "price", Num(0)),
                          volume      |-> Get(stock_data, "volume", Num(0)),
                          source      |-> Get(stock_data, "source", Str(<<"unknown">>))],
                         DB_stock_prices_unique)]

\* log_api_usage(api_source, symbol, success, response_time, error_message)
\* at instant t: one INSERT, committed
DB_log_api_usage(d, api_source, symbol, success, response_time, error_message, t, ok) ==
    IF ~ok THEN d
    ELSE [d EXCEPT
            !.api_usage = DB_insert(@,
                         [api_source    |-> api_source,
                          symbol        |-> symbol,
                          request_date  |-> DateOfTimestamp(t),
                          success       |-> success,
                          response_time |-> response_time,
                          error_message |-> error_message])]

----------------------------------------------------------------------------
(* app.py: get_stock_detail *)

\* the state a handler works on: the clock, the two budgets, the value of
\* stock_data, the adapter calls made with what each returned, the events
World(t, a, f) == [now |-> t, av |-> a, fh |-> f, stock_data |-> None,
                   returned |-> <<>>, events |-> <<>>]

\* stock_data = yahoo_client.get_stock_data(symbol)
Try_yahoo(w, symbol, in) ==
    LET r == Yahoo_get_stock_data(symbol, w.now, in.info, in.lat)
    IN  [w EXCEPT !.now = r.now, !.stock_data = r.ret,
                  !.returned = @ \o << <<YahooName, r.ret>> >>,
                  !.events = @ \o r.events]

\* stock_data = alpha_vantage_client.get_stock_data(symbol)
Try_alpha_vantage(w, symbol, in) ==
    LET r == AV_get_stock_data(w.av, symbol, w.now, in.avresp, in.lat, in.over)
    IN  [w EXCEPT !.now = r.now, !.av = r.self, !.stock_data = r.ret,
                  !.returned = @ \o << <<AVName, r.ret>> >>,
                  !.events = @ \o r.events]

\* stock_data = finnhub_client.get_stock_data(symbol)
Try_finnhub(w, symbol, in) ==
    LET r == FH_get_stock_data(w.fh, symbol, w.now, in.fhquote, in.fhprofile, in.lat, in.over)
    IN  [w EXCEPT !.now = r.now, !.fh = r.self, !.stock_data = r.ret,
                  !.returned = @ \o << <<FHName, r.ret>> >>,
                  !.events = @ \o r.events]

\* the attempts with Alpha Vantage asked before Yahoo
Resolve_reordered(w, symbol, in) ==
    LET w1 == Try_alpha_vantage(w, symbol, in)
        w2 == IF ~Truthy(w1.stock_data) THEN Try_yahoo(w1, symbol, in) ELSE w1
        w3 == IF ~Truthy(w2.stock_data) THEN Try_finnhub(w2, symbol, in) ELSE w2
    IN  w3

\* the attempts with Finnhub asked whatever the earlier providers returned,
\* its answer used only when they returned nothing
Resolve_eager(w, symbol, in) ==
    LET w1 == Try_yahoo(w, symbol, in)
        w2 == IF ~Truthy(w1.stock_data) THEN Try_alpha_vantage(w1, symbol, in) ELSE w1
        w3 == Try_finnhub(w2, symbol, in)
    IN  IF Truthy(w2.stock_data)
        THEN [w3 EXCEPT !.stock_data = w2.stock_data, !.returned = w2.returned]
        ELSE w3

\* lines 59-68: the three attempts
Resolve(w, symbol, in) ==
    LET w1 == Try_yahoo(w, symbol, in)
        w2 == IF ~Truthy(w1.stock_data) THEN Try_alpha_vantage(w1, symbol, in) ELSE w1
        w3 == IF ~Truthy(w2.stock_data) THEN Try_finnhub(w2, symbol, in) ELSE w2
    IN  w3

Response(status, data, error) == [status |-> status, data |-> data, error |-> error]

\* what a call of store_stock_data did: it committed its two rows, or it
\* logged the error sqlite raised
Committed(ok) == IF ok THEN "committed" ELSE "error"

\* the handler with the series attached to a copy of the record:
\* stock_data = {**stock_data, 'historical': historical_data}
Respond_copied(w, d, symbol, in) ==
    IF Truthy(w.stock_data)
    THEN Bind(Dict(("historical" :> DP_get_historical_data(symbol, w.now)) @@ w.stock_data.v),
              LAMBDA stock_data :
             [response |-> Response(200, stock_data, "none"),
              db       |-> DB_store_stock_data(d, symbol, stock_data, w.now, in.dbok),
              events   |-> w.events \o << Ev("store", "db", Committed(in.dbok), w.now, 0) >>,
              object   |-> w.stock_data])
    ELSE [response |-> Response(404, None, "Stock data not found"),
          db       |-> d,
          events   |-> w.events,
          object   |-> None]

\* lines 70-84: the response, the database after the handler, and object:
\* what the record object the adapter returned holds after the handler.
\* stock_data['historical'] = historical_data is an item assignment on that
\* object (stock_data is bound to it, no copy is made), so the object, the
\* data of the response and the record stored are one
Respond(w, d, symbol, in) ==
    IF Truthy(w.stock_data)
    THEN Bind(Dict(("historical" :> DP_get_historical_data(symbol, w.now)) @@ w.stock_data.v),
              LAMBDA stock_data :
             [response |-> Response(200, stock_data, "none"),
              db       |-> DB_store_stock_data(d, symbol, stock_data, w.now, in.dbok),
              events   |-> w.events \o << Ev("store", "db", Committed(in.dbok), w.now, 0) >>,
              object   |-> stock_data])
    ELSE [response |-> Response(404, None, "Stock data not found"),
          db       |-> d,
          events   |-> w.events,
          object   |-> None]

----------------------------------------------------------------------------
(* The requests counted from the events of an operation *)

Sent_init == [av_total |-> 0, av_last_at |-> 0 - 1, av_min_gap |-> 0 - 1,
              fh_window |-> 0, errors |-> 0, stored |-> 0]

Min(a, b) == IF a < b THEN a ELSE b

Sent_event(g, ev) ==
    IF ev.e = "http" /\ ev.who = AVName
    THEN [g EXCEPT !.av_total = @ + 1,
                   !.av_last_at = ev.at,
                   !.av_min_gap = IF g.av_last_at < 0 THEN @
                                  ELSE IF @ < 0 THEN ev.at - g.av_last_at
                                  ELSE Min(@, ev.at - g.av_last_at)]
    ELSE IF ev.e = "http" /\ ev.who = FHName
    THEN [g EXCEPT !.fh_window = @ + 1]
    ELSE IF ev.e = "reset" /\ ev.who = FHName
    THEN [g EXCEPT !.fh_window = 0]
    ELSE IF ev.e = "log"
    THEN [g EXCEPT !.errors = @ + 1]
    ELSE IF ev.e = "store" /\ ev.what = "committed"
    THEN [g EXCEPT !.stored = @ + 1]
    ELSE g

RECURSIVE Sent_events(_, _)
Sent_events(g, events) ==
    IF events = <<>> THEN g ELSE Sent_events(Sent_event(g, Head(events)), Tail(events))

----------------------------------------------------------------------------
(* Inputs: symbols, and what the providers answer *)

Symbols == { <<"A">>, <<"b", ":", "B">> }

OneSymbol == { <<"b", ":", "B">> }

Acme == Str(<<"Acme Corp">>)

\* ticker.info
YahooNoPrice == Dict("longName" :> Acme @@ "sector" :> Str(<<"Technology">>))

YahooPriceOnly == Dict("regularMarketPrice" :> Num(15025))

YahooFull ==
    Dict("regularMarketPrice" :> Num(15025) @@ "longName" :> Acme
         @@ "regularMarketChange" :> Num(0 - 150) @@ "regularMarketVolume" :> Num(100000)
         @@ "marketCap" :> Num(250000) @@ "sector" :> Str(<<"Technology">>))

YahooInfos == { Raise("HTTPError"), None, EmptyDict, YahooNoPrice, List(<<Num(100)>>),
                YahooPriceOnly, YahooFull }

\* the body of a GLOBAL_QUOTE answer
AVGoodQuote ==
    Dict("Global Quote" :> Dict(
           "01. symbol" :> Str(<<"A">>)
        @@ "05. price" :> Str(<<"1", "5", "0", ".", "2", "5">>)
        @@ "09. change" :> Str(<<"-", "1", ".", "5">>)
        @@ "10. change percent" :> Str(<<"1", ".", "2", "3", "%">>)
        @@ "06. volume" :> Str(<<"1", "0", "0">>)))

AVPriceOnly == Dict("Global Quote" :> Dict("05. price" :> Str(<<"7">>)))

AVNoPrice == Dict("Global Quote" :> Dict("01. symbol" :> Str(<<"A">>)))

AVEmptyQuote == Dict("Global Quote" :> EmptyDict)

AVNote == Dict("Note" :> Str(<<"API call frequency">>))

AVBadPrice == Dict("Global Quote" :> Dict("05. price" :> Str(<<"b", "a", "d">>)))

AVBadVolume ==
    Dict("Global Quote" :> Dict("05. price" :> Str(<<"7">>) @@ "06. volume" :> Str(<<"1", ".", "5">>)))

\* a change percent that is not a number: "bad%"
AVBadPercent ==
    Dict("Global Quote" :> Dict("05. price" :> Str(<<"7">>)
                                @@ "10. change percent" :> Str(<<"b", "a", "d", "%">>)))

AVQuoteBodies == { Raise("JSONDecodeError"), None, EmptyDict, Num(500), List(<<Num(100)>>),
                   AVNote, AVEmptyQuote, AVNoPrice, AVBadPrice, AVBadVolume, AVBadPercent,
                   AVPriceOnly, AVGoodQuote }

AVQuoteResponses == { Exc, Http(500, None) } \cup { Http(200, b) : b \in AVQuoteBodies }

\* the body of a TIME_SERIES_DAILY answer
AVDay(o) == Dict("1. open" :> Str(o) @@ "2. high" :> Str(o) @@ "3. low" :> Str(o)
                 @@ "4. close" :> Str(o) @@ "5. volume" :> Str(<<"9">>))

Jan(d) == <<"2", "0", "2", "4", "-", "0", "1", "-", "0", d>>

AVSeries(pairs) == Dict("Time Series (Daily)" :> ODict(pairs))

AVHistBodies ==
    { Raise("JSONDecodeError"), EmptyDict, Num(500), AVNote,
      AVSeries(<<>>),
      AVSeries(<< <<Jan("1"), AVDay(<<"1">>)>>, <<Jan("3"), AVDay(<<"3">>)>>,
                  <<Jan("2"), AVDay(<<"2">>)>> >>),
      AVSeries(<< <<Jan("2"), AVDay(<<"2">>)>>, <<Jan("1"), Dict("1. open" :> Str(<<"1">>))>> >>),
      AVSeries(<< <<Jan("1"), AVDay(<<"b", "a", "d">>)>> >>) }

AVHistResponses == { Exc, Http(503, None) } \cup { Http(200, b) : b \in AVHistBodies }

\* the body of a /quote answer
FHGoodQuote ==
    Dict("c" :> Num(15025) @@ "d" :> Num(0 - 150) @@ "dp" :> Num(0 - 99) @@ "h" :> Num(15200)
         @@ "l" :> Num(14900) @@ "o" :> Num(15100) @@ "pc" :> Num(15175))

FHUnknownSymbol == Dict("c" :> Num(0) @@ "d" :> None @@ "dp" :> None)

FHQuoteBodies == { Raise("JSONDecodeError"), EmptyDict, List(<<Num(100)>>), Num(500),
                   Dict("error" :> Str(<<"no access">>)), Dict("d" :> Num(5)),
                   FHUnknownSymbol, Dict("c" :> Num(700)), FHGoodQuote }

FHQuoteResponses == { Exc, Http(429, None) } \cup { Http(200, b) : b \in FHQuoteBodies }

\* the body of a /stock/profile2 answer
FHGoodProfile ==
    Dict("name" :> Acme @@ "country" :> Str(<<"US">>) @@ "marketCapitalization" :> Num(250))

FHProfileResponses ==
    { Exc, Http(429, None), Http(200, EmptyDict), Http(200, List(<<Num(100)>>)),
      Http(200, Dict("name" :> Acme)), Http(200, FHGoodProfile) }

\* the body of a /stock/candle answer; Day1 is 2024-01-01 00:00:00 UTC
Day1 == 19723 * SecondsPerDay

Candles(t, o, h, l, c, v) ==
    Dict("s" :> Str(<<"ok">>) @@ "t" :> List(t) @@ "o" :> List(o) @@ "h" :> List(h)
         @@ "l" :> List(l) @@ "c" :> List(c) @@ "v" :> List(v))

Prices(n) == [i \in 1..n |-> Num(100 * i)]

FHHistBodies ==
    { Raise("JSONDecodeError"), EmptyDict, List(<<Num(100)>>),
      Dict("s" :> Str(<<"no_data">>)),
      Dict("s" :> Str(<<"ok">>)),
      Candles(<<Num(Day1), Num(Day1 + 2 * SecondsPerDay), Num(Day1 + SecondsPerDay)>>,
              Prices(3), Prices(3), Prices(3), Prices(3), Prices(3)),
      Candles(<<Num(Day1), Num(Day1 + 3600)>>,
              Prices(2), Prices(2), Prices(2), Prices(2), Prices(2)),
      Candles(<<Num(Day1), Num(Day1 + SecondsPerDay)>>,
              Prices(2), Prices(2), Prices(1), Prices(2), Prices(2)),
      Candles(<<Num(Day1)>>, Prices(2), Prices(2), Prices(2), Prices(2), Prices(2)),
      Candles(<<Num(Day1)>>, <<None>>, Prices(1), Prices(1), Prices(1), Prices(1)) }

FHHistResponses == { Exc, Http(403, None) } \cup { Http(200, b) : b \in FHHistBodies }

\* ticker.history: rows in ascending order of date
Row(d, x, v) == [date |-> d, Open |-> Num(x), High |-> Num(x), Low |-> Num(x),
                 Close |-> Num(x), Volume |-> v]

YahooHists ==
    { Raise("HTTPError"), List(<<>>),
      List(<< Row(19723, 100, Num(900)) >>),
      List(<< Row(19723, 100, Num(900)), Row(19724, 200, Num(900)), Row(19725, 300, Num(900)) >>),
      List(<< Row(19723, 100, Num(900)), Row(19724, 200, NaN) >>) }

----------------------------------------------------------------------------
(* State machine *)

\* the request threads of the server
Callers == { "first", "second" }

\* a thread that has not been handed a request: pc is where the call stands,
\* current_time, sleep_time and request_count are the locals of _make_request,
\* endpoint and data its argument and its result, waits and requests count the
\* time.sleep calls and the outbound requests of the call
NotStarted ==
    [name |-> "none", pc |-> "idle", who |-> "none", current_time |-> 0, wake |-> 0,
     request_count |-> 0, endpoint |-> "none", data |-> None, quote |-> None,
     ret |-> None, waits |-> 0, requests |-> 0]

Op(name, symbol, input, returned) ==
    [name |-> name, symbol |-> symbol, input |-> input, returned |-> returned]

Init ==
    /\ now = StartTime
    /\ av = AV_init
    /\ fh = FH_init(StartTime)
    /\ db = DB_init
    /\ op = Op("init", <<>>, None, <<>>)
    /\ trace = <<>>
    /\ result = None
    /\ sent = Sent_init
    /\ fuel = MaxOps
    /\ calls = [c \in Callers |-> NotStarted]

\* an operation is started: cost is 1 where the run is bounded by MaxOps
Start(horizon, cost) ==
    /\ now <= horizon
    /\ fuel >= cost
    /\ fuel' = fuel - cost

\* the ghost variables after an operation
Record(o, events, ret) ==
    /\ op' = o
    /\ trace' = events
    /\ result' = ret
    /\ sent' = Sent_events(sent, events)
    /\ sent'.errors <= MaxErrors
    /\ UNCHANGED calls

\* time passes while no operation runs
Tick(steps, horizon) ==
    \E dt \in steps :
        /\ now + dt <= horizon
        /\ now' = now + dt
        /\ UNCHANGED <<av, fh, db, op, trace, result, sent, fuel, calls>>

\* GET /api/stock/<symbol>
GetStockDetail(horizon, cost, infos, avresps, fhquotes, fhprofiles, lats, overs) ==
    /\ Start(horizon, cost)
    /\ \E symbol \in Symbols, info \in infos, avresp \in avresps, fhquote \in fhquotes,
          fhprofile \in fhprofiles, lat \in lats, over \in overs, dbok \in BOOLEAN :
          \E in \in { [info |-> info, avresp |-> avresp, fhquote |-> fhquote,
                       fhprofile |-> fhprofile, lat |-> lat, over |-> over, dbok |-> dbok] } :
          \E w \in { Resolve(World(now, av, fh), symbol, in) } :
          \E r \in { Respond(w, db, symbol, in) } :
              /\ now' = w.now
              /\ av' = w.av
              /\ fh' = w.fh
              /\ db' = r.db
              /\ Record([name |-> "get_stock_detail", symbol |-> symbol, input |-> None,
                         returned |-> w.returned, object |-> r.object],
                        r.events, r.response)

\* yahoo_client.get_stock_data(symbol)
YahooQuote(horizon, cost, symbols, infos, lats) ==
    /\ Start(horizon, cost)
    /\ \E symbol \in symbols, info \in infos, lat \in lats :
          \E r \in { Yahoo_get_stock_data(symbol, now, info, lat) } :
              /\ now' = r.now
              /\ Record(Op("yahoo.get_stock_data", symbol, info, << <<YahooName, r.ret>> >>),
                        r.events, r.ret)
              /\ UNCHANGED <<av, fh, db>>

\* yahoo_client.get_historical_data(symbol)
YahooHistory(horizon, cost, symbols, hists, lats) ==
    /\ Start(horizon, cost)
    /\ \E symbol \in symbols, hist \in hists, lat \in lats :
          \E r \in { Yahoo_get_historical_data(symbol, now, hist, lat) } :
              /\ now' = r.now
              /\ Record(Op("yahoo.get_historical_data", symbol, hist, << <<YahooName, r.ret>> >>),
                        r.events, r.ret)
              /\ UNCHANGED <<av, fh, db>>

\* alpha_vantage_client.get_stock_data(symbol)
AVQuote(horizon, cost, symbols, resps, lats, overs) ==
    /\ Start(horizon, cost)
    /\ \E symbol \in symbols, resp \in resps, lat \in lats, over \in overs :
          \E r \in { AV_get_stock_data(av, symbol, now, resp, lat, over) } :
              /\ now' = r.now
              /\ av' = r.self
              /\ Record(Op("alpha_vantage.get_stock_data", symbol, resp, << <<AVName, r.ret>> >>),
                        r.events, r.ret)
              /\ UNCHANGED <<fh, db>>

\* alpha_vantage_client.get_historical_data(symbol)
AVHistory(horizon, cost, symbols, resps, lats, overs) ==
    /\ Start(horizon, cost)
    /\ \E symbol \in symbols, resp \in resps, lat \in lats, over \in overs :
          \E r \in { AV_get_historical_data(av, symbol, now, resp, lat, over) } :
              /\ now' = r.now
              /\ av' = r.self
              /\ Record(Op("alpha_vantage.get_historical_data", symbol, resp,
                           << <<AVName, r.ret>> >>), r.events, r.ret)
              /\ UNCHANGED <<fh, db>>

\* finnhub_client.get_stock_data(symbol)
FHQuote(horizon, cost, symbols, quotes, profiles, lats, overs) ==
    /\ Start(horizon, cost)
    /\ \E symbol \in symbols, qresp \in quotes, presp \in profiles, lat \in lats, over \in overs :
          \E r \in { FH_get_stock_data(fh, symbol, now, qresp, presp, lat, over) } :
              /\ now' = r.now
              /\ fh' = r.self
              /\ Record(Op("finnhub.get_stock_data", symbol,
                           [quote |-> qresp, profile |-> presp], << <<FHName, r.ret>> >>),
                        r.events, r.ret)
              /\ UNCHANGED <<av, db>>

\* finnhub_client.get_historical_data(symbol)
FHHistory(horizon, cost, symbols, resps, lats, overs) ==
    /\ Start(horizon, cost)
    /\ \E symbol \in symbols, resp \in resps, lat \in lats, over \in overs :
          \E r \in { FH_get_historical_data(fh, symbol, now, resp, lat, over) } :
              /\ now' = r.now
              /\ fh' = r.self
              /\ Record(Op("finnhub.get_historical_data", symbol, resp, << <<FHName, r.ret>> >>),
                        r.events, r.ret)
              /\ UNCHANGED <<av, db>>

----------------------------------------------------------------------------
(* SpecAdapters: the public operations of the three adapters, on every    *)
(* kind of answer, MaxOps operations in a run                             *)

\* operations are started until the clock has passed the horizon
Horizon == StartTime + MinSpacing

AdapterTick == Tick({MinSpacing}, Horizon)

AdapterYahooQuote == YahooQuote(Horizon, 1, Symbols, YahooInfos, Instant)

AdapterYahooHistory == YahooHistory(Horizon, 1, Symbols, YahooHists, Instant)

AdapterAVQuote == AVQuote(Horizon, 1, OneSymbol, AVQuoteResponses, Instant, Instant)

AdapterAVHistory == AVHistory(Horizon, 1, OneSymbol, AVHistResponses, Instant, Instant)

AdapterFHQuote ==
    FHQuote(Horizon, 1, OneSymbol, FHQuoteResponses, FHProfileResponses, Instant, Instant)

AdapterFHHistory == FHHistory(Horizon, 1, OneSymbol, FHHistResponses, Instant, Instant)

NextAdapters ==
    \/ AdapterTick
    \/ AdapterYahooQuote
    \/ AdapterYahooHistory
    \/ AdapterAVQuote
    \/ AdapterAVHistory
    \/ AdapterFHQuote
    \/ AdapterFHHistory

SpecAdapters == Init /\ [][NextAdapters]_vars

----------------------------------------------------------------------------
(* Spec: requests to /api/stock/<symbol>, MaxOps of them in a run *)

ResolveInfos == { None, YahooNoPrice, YahooFull }

ResolveAVResponses == { Exc, Http(200, AVNoPrice), Http(200, AVGoodQuote) }

ResolveFHQuotes == { Http(429, None), Http(200, Dict("d" :> Num(5))), Http(200, FHGoodQuote) }

ResolveFHProfiles == { Exc, Http(200, FHGoodProfile) }

ResolveTick == Tick({MinSpacing}, Horizon)

ResolveDetail ==
    GetStockDetail(Horizon, 1, ResolveInfos, ResolveAVResponses, ResolveFHQuotes,
                   ResolveFHProfiles, Instant, Instant)

Next ==
    \/ ResolveTick
    \/ ResolveDetail

Spec == Init /\ [][Next]_vars

----------------------------------------------------------------------------
(* Properties of the fallback resolution *)

\* the fixed order of the providers
ProviderOrder == << YahooName, AVName, FHName >>

Priority(who) == CHOOSE i \in 1..3 : ProviderOrder[i] = who

Providers == { YahooName, AVName, FHName }

\* what a dict holds under the keys of q is q
Carries(data, q) ==
    /\ data.t = "dict"
    /\ DOMAIN q.v \subseteq DOMAIN data.v
    /\ \A key \in DOMAIN q.v : data.v[key] = q.v[key]

\* the events of the operation executed last that are of kind e
EventsOf(e) == { i \in 1..Len(trace) : trace[i].e = e }

\* C1: get_stock_detail asks Yahoo, then Alpha Vantage, then Finnhub; it stops
\* at the first provider that returns a quote and responds with that quote; it
\* responds 404 'Stock data not found' exactly when all three returned NotFound
C1_FallbackOrder ==
    op.name = "get_stock_detail" =>
        LET called == op.returned
            n      == Len(called)
        IN  /\ n \in 1..3
            /\ \A i \in 1..n : called[i][1] = ProviderOrder[i]
            /\ \A i \in 1..(n - 1) : called[i][2] = None
            /\ n < 3 => called[n][2] # None
            /\ called[n][2] # None =>
                   /\ result.status = 200
                   /\ Carries(result.data, called[n][2])
            /\ result.status \in {200, 404}
            /\ result.status = 404 <=>
                   /\ n = 3
                   /\ \A i \in 1..3 : called[i][2] = None
            /\ result.status = 404 => result.error = "Stock data not found"

\* a resolution in which Yahoo and Alpha Vantage returned NotFound and Finnhub a quote
C1_Witness ==
    /\ op.name = "get_stock_detail"
    /\ Len(op.returned) = 3
    /\ op.returned[3][2] # None
    /\ result.status = 200
    /\ result.data.v["source"] = Str(<<"finnhub">>)

\* C2: once a provider has returned a quote, no provider of lower priority is
\* invoked in that resolution, and the response carries that quote
C2_ShortCircuit ==
    op.name = "get_stock_detail" =>
        \A i \in 1..Len(op.returned) :
            op.returned[i][2] # None =>
                /\ \A j \in 1..Len(trace) :
                       trace[j].who \in Providers => Priority(trace[j].who) <= i
                /\ Carries(result.data, op.returned[i][2])
                /\ result.data.v["source"] = op.returned[i][2].v["source"]

\* Yahoo returned NotFound, Alpha Vantage a quote, and Finnhub was not invoked
C2_Witness ==
    /\ op.name = "get_stock_detail"
    /\ Len(op.returned) = 2
    /\ op.returned[1][2] = None
    /\ op.returned[2][2] # None
    /\ result.data.v["source"] = Str(<<"alpha_vantage">>)
    /\ \A j \in 1..Len(trace) : trace[j].who # FHName

\* C3: in one resolution each adapter's get_stock_data is entered at most once
\* and no adapter issues the same request twice
C3_NoRetry ==
    op.name = "get_stock_detail" =>
        /\ \A i, j \in EventsOf("call") : trace[i].who = trace[j].who => i = j
        /\ \A i, j \in EventsOf("http") :
               trace[i].who = trace[j].who /\ trace[i].what = trace[j].what => i = j

\* the Alpha Vantage request of a resolution failed in transport, and the
\* resolution went on to Finnhub
C3_Witness ==
    /\ op.name = "get_stock_detail"
    /\ \E i \in EventsOf("log") : trace[i].who = AVName
    /\ Cardinality({ i \in EventsOf("http") : trace[i].who = AVName }) = 1
    /\ \E i \in EventsOf("call") : trace[i].who = FHName

----------------------------------------------------------------------------
(* Properties of the adapters' public operations *)

QuoteOps == { "yahoo.get_stock_data", "alpha_vantage.get_stock_data", "finnhub.get_stock_data" }

HistoryOps == { "yahoo.get_historical_data", "alpha_vantage.get_historical_data",
                "finnhub.get_historical_data" }

AdapterOps == QuoteOps \cup HistoryOps

\* the keys every adapter puts in a quote
QuoteKeys == { "symbol", "name", "price", "change", "change_percent", "source", "timestamp" }

BarKeys == { "date", "open", "high", "low", "close", "volume" }

\* C4: get_stock_data and get_historical_data of the three adapters raise
\* nothing: whatever the underlying call does, a quote operation returns a
\* quote record or None and a history operation returns a list of bars or None
C4_NoExceptionEscapes ==
    /\ op.name \in QuoteOps =>
           \/ result = None
           \/ result.t = "dict" /\ QuoteKeys \subseteq DOMAIN result.v
    /\ op.name \in HistoryOps =>
           \/ result = None
           \/ /\ result.t = "list"
              /\ \A i \in 1..Len(result.v) :
                     result.v[i].t = "dict" /\ DOMAIN result.v[i].v = BarKeys

\* a payload whose price is not a number made get_stock_data return None
C4_Witness ==
    /\ op.name = "alpha_vantage.get_stock_data"
    /\ op.input = Http(200, AVBadPrice)
    /\ \E i \in EventsOf("http") : trace[i].who = AVName
    /\ result = None

\* a dict x has no entry k
Lacks(x, k) == x.t = "dict" /\ k \notin DOMAIN x.v

\* the answer was received: the request returned with status 200 and a body
Received(resp) == resp.kind = "http" /\ resp.status = 200 /\ ~IsRaise(resp.body)

\* C5: a received payload without the price-bearing field ('regularMarketPrice',
\* 'Global Quote' / '05. price', 'c') makes get_stock_data return None
C5_MissingPriceIsNotFound ==
    /\ op.name = "yahoo.get_stock_data" /\ ~IsRaise(op.input)
           /\ Lacks(op.input, "regularMarketPrice")
       => result = None
    /\ op.name = "alpha_vantage.get_stock_data" /\ Received(op.input)
           /\ \/ Lacks(op.input.body, "Global Quote")
              \/ /\ HasKey(op.input.body, "Global Quote")
                 /\ Lacks(op.input.body.v["Global Quote"], "05. price")
       => result = None
    /\ op.name = "finnhub.get_stock_data" /\ Received(op.input.quote)
           /\ Lacks(op.input.quote.body, "c")
       => result = None

\* Alpha Vantage answered with a quote that has no '05. price'
C5_Witness ==
    /\ op.name = "alpha_vantage.get_stock_data"
    /\ op.input = Http(200, AVNoPrice)
    /\ \E i \in EventsOf("http") : trace[i].who = AVName
    /\ result = None

\* the request trace[i] is preceded, in the same operation, by a rate-limit
\* check of the same adapter made after that adapter's previous request
Gated(i) ==
    \E j \in EventsOf("gate") :
        /\ j < i
        /\ trace[j].who = trace[i].who
        /\ \A m \in EventsOf("http") : j < m /\ m < i => trace[m].who # trace[i].who

----------------------------------------------------------------------------
(* SpecLimiters: operations of the three adapters, as many as fit before   *)
(* the horizon, on a few answers; the Finnhub window fills up              *)

LimiterInfos == { None, YahooFull }

LimiterHists == { List(<<>>), List(<< Row(19723, 100, Num(900)) >>) }

LimiterAVQuotes == { Exc, Http(500, None), Http(200, AVGoodQuote) }

LimiterAVHists ==
    { Exc, Http(200, AVSeries(<< <<Jan("1"), AVDay(<<"1">>)>>, <<Jan("2"), AVDay(<<"2">>)>> >>)) }

LimiterFHQuotes == { Exc, Http(200, FHGoodQuote) }

LimiterFHProfiles == { Exc, Http(200, FHGoodProfile) }

LimiterFHHists ==
    { Exc, Http(200, Candles(<<Num(Day1)>>, Prices(1), Prices(1), Prices(1), Prices(1), Prices(1))) }

LimiterTick == Tick({MinSpacing}, Horizon)

LimiterYahooQuote == YahooQuote(Horizon, 0, OneSymbol, LimiterInfos, Instant)

LimiterYahooHistory == YahooHistory(Horizon, 0, OneSymbol, LimiterHists, Instant)

LimiterAVQuote == AVQuote(Horizon, 0, OneSymbol, LimiterAVQuotes, Instant, Oversleeps)

LimiterAVHistory == AVHistory(Horizon, 0, OneSymbol, LimiterAVHists, Instant, Oversleeps)

LimiterFHQuote ==
    FHQuote(Horizon, 0, OneSymbol, LimiterFHQuotes, LimiterFHProfiles, Instant, Oversleeps)

LimiterFHHistory == FHHistory(Horizon, 0, OneSymbol, LimiterFHHists, Instant, Oversleeps)

NextLimiters ==
    \/ LimiterTick
    \/ LimiterYahooQuote
    \/ LimiterYahooHistory
    \/ LimiterAVQuote
    \/ LimiterAVHistory
    \/ LimiterFHQuote
    \/ LimiterFHHistory

SpecLimiters == Init /\ [][NextLimiters]_vars

----------------------------------------------------------------------------
(* SpecDaily: operations of the Alpha Vantage adapter until its daily      *)
(* budget is used up, and after                                            *)

DailyHorizon == StartTime + SecondsPerDay + MinSpacing * DailyCap

\* a day passes
DailyTick == Tick({SecondsPerDay}, DailyHorizon)

DailyAVQuote == AVQuote(DailyHorizon, 0, OneSymbol, LimiterAVQuotes, Instant, Instant)

DailyAVHistory == AVHistory(DailyHorizon, 0, OneSymbol, LimiterAVHists, Instant, Instant)

NextDaily ==
    \/ DailyTick
    \/ DailyAVQuote
    \/ DailyAVHistory

SpecDaily == Init /\ [][NextDaily]_vars

----------------------------------------------------------------------------
(* Properties of the rate limiters *)

\* C7 as claimed: two consecutive requests of the Alpha Vantage adapter are
\* issued at least MinSpacing seconds apart, whatever the earlier one came to
C7_MinimumSpacing ==
    sent.av_min_gap >= 0 => sent.av_min_gap >= MinSpacing

\* C8 as claimed: the Finnhub adapter issues at most WindowCap requests in one
\* window; the request after them waits for the new window
C8_WindowCap ==
    sent.fh_window <= WindowCap

AVOps == { "alpha_vantage.get_stock_data", "alpha_vantage.get_historical_data" }

C10_CounterCountsRequests ==
    /\ av.request_count = sent.av_total
    /\ sent.av_total > 0 => av.last_request_time >= sent.av_last_at
    /\ fh.request_count = sent.fh_window

----------------------------------------------------------------------------
(* Properties of the historical series *)

\* the date of the i-th bar of a returned series
DateAt(series, i) == series.v[i].v["date"].v

\* C11 as claimed: every list returned by get_historical_data of any adapter is
\* ordered newest-first: no bar is older than the bar after it
C11_NewestFirst ==
    op.name \in HistoryOps /\ result.t = "list" =>
        \A i \in 1..(Len(result.v) - 1) : ~StrLess(DateAt(result, i), DateAt(result, i + 1))

\* the six parallel arrays of a /stock/candle body, where they are lists
CandleKeys == { "t", "o", "h", "l", "c", "v" }

IsCandles(body) ==
    /\ body.t = "dict"
    /\ CandleKeys \subseteq DOMAIN body.v
    /\ body.v["s"] = Str(<<"ok">>)
    /\ \A k \in CandleKeys : body.v[k].t = "list"

\* C12 as claimed: a Finnhub candle payload whose six arrays do not all have
\* the same length makes get_historical_data return None
C12_FailsClosed ==
    /\ op.name = "finnhub.get_historical_data"
    /\ Received(op.input)
    /\ IsCandles(op.input.body)
    /\ \E j, k \in CandleKeys : Len(op.input.body.v[j].v) # Len(op.input.body.v[k].v)
    => result = None

\* C13 as claimed: no two bars of a returned series carry the same date
C13_DatesUnique ==
    op.name \in HistoryOps /\ result.t = "list" =>
        \A i, j \in 1..Len(result.v) : DateAt(result, i) = DateAt(result, j) => i = j

----------------------------------------------------------------------------
(* Properties of the quote records *)

PercentKey == "10. change percent"

\* the Global Quote of the answer an Alpha Vantage operation received
QuoteReceived == op.input.body.v["Global Quote"]

\* the Global Quote without its change percent
WithoutPercent(quote) == Dict([k \in DOMAIN quote.v \ {PercentKey} |-> quote.v[k]])

\* get_stock_data received a Global Quote with a price and a change percent
\* string, whose other fields convert
PercentReceived ==
    /\ op.name = "alpha_vantage.get_stock_data"
    /\ \E i \in 1..Len(trace) : trace[i].e = "http"
    /\ Received(op.input)
    /\ HasKey(op.input.body, "Global Quote")
    /\ HasKey(QuoteReceived, "05. price")
    /\ HasKey(QuoteReceived, PercentKey)
    /\ QuoteReceived.v[PercentKey].t = "str"
    /\ ~IsRaise(AV_stock_data(op.symbol, WithoutPercent(QuoteReceived), now))

\* the change percent string with its "%" removed
PercentDigits == RemoveChar(QuoteReceived.v[PercentKey].v, "%")

\* C14 as claimed: the Alpha Vantage quote carries the change percent string
\* as a number, "1.23%" as 1.23, and a string that is no number, "bad%", as
\* 0 with the quote still returned.
C14_PercentParsed ==
    PercentReceived =>
        /\ result.t = "dict"
        /\ result.v["change_percent"] =
               IF IsFloatLiteral(PercentDigits) THEN Num(LiteralValue(PercentDigits)) ELSE Num(0)

\* the fields of a CanonicalQuote
CanonicalKeys ==
    { "symbol", "name", "price", "change", "change_percent", "volume", "open", "high",
      "low", "previous_close", "market_cap", "sector", "industry", "country", "currency",
      "exchange", "source", "timestamp" }

LowerCase ==
    { "a", "b", "c", "d", "e", "f", "g", "h", "i", "j", "k", "l", "m", "n", "o", "p", "q",
      "r", "s", "t", "u", "v", "w", "x", "y", "z" }

\* s == s.upper()
IsUpperCase(s) == \A i \in 1..Len(s) : s[i] \notin LowerCase

\* C15 as claimed: a quote returned by an adapter has every field of a
\* CanonicalQuote, and its symbol is in upper case.
C15_CanonicalShape ==
    op.name \in QuoteOps /\ result.t = "dict" =>
        /\ CanonicalKeys \subseteq DOMAIN result.v
        /\ IsUpperCase(result.v["symbol"].v)

\* the default of a field the payload lacks
DefaultOf(k) ==
    CASE k \in { "sector", "industry", "country", "exchange" } -> Str(<<"Unknown">>)
      [] k = "currency" -> Str(<<"USD">>)
      [] k \in { "website", "logo" } -> Str(<<>>)
      [] OTHER -> Num(0)

\* the payload field each field of a quote is read from
YahooFields ==
       "price" :> "regularMarketPrice" @@ "change" :> "regularMarketChange"
    @@ "change_percent" :> "regularMarketChangePercent" @@ "volume" :> "regularMarketVolume"
    @@ "market_cap" :> "marketCap" @@ "pe_ratio" :> "trailingPE"
    @@ "dividend_yield" :> "dividendYield" @@ "sector" :> "sector"
    @@ "industry" :> "industry" @@ "country" :> "country" @@ "currency" :> "currency"
    @@ "exchange" :> "exchange"

AVFields ==
       "price" :> "05. price" @@ "change" :> "09. change"
    @@ "change_percent" :> "10. change percent" @@ "volume" :> "06. volume"
    @@ "high" :> "03. high" @@ "low" :> "04. low" @@ "open" :> "02. open"
    @@ "previous_close" :> "08. previous close"

FHFields ==
       "price" :> "c" @@ "change" :> "d" @@ "change_percent" :> "dp" @@ "high" :> "h"
    @@ "low" :> "l" @@ "open" :> "o" @@ "previous_close" :> "pc"

FHProfileFields ==
       "country" :> "country" @@ "currency" :> "currency" @@ "exchange" :> "exchange"
    @@ "industry" :> "finnhubIndustry" @@ "market_cap" :> "marketCapitalization"
    @@ "website" :> "weburl" @@ "logo" :> "logo"

\* the quote has the fields of the table and no others but symbol, name,
\* source and timestamp; a field the payload lacks has its default
ShapedBy(quote, fields, payload) ==
    /\ DOMAIN fields \subseteq DOMAIN quote.v
    /\ \A k \in DOMAIN fields : fields[k] \notin DOMAIN payload.v => quote.v[k] = DefaultOf(k)

\* the company profile get_stock_data of Finnhub used: a received body that
\* is not empty
ProfileUsed == Received(op.input.profile) /\ Truthy(op.input.profile.body)

\* C15: a quote returned by an adapter carries the symbol it was asked for
\* (the Yahoo adapter with ":" replaced by "."), a name that defaults to the
\* symbol, its source and a timestamp, and exactly the fields its adapter
\* reads, each with its default when the payload lacks it: Yahoo no open,
\* high, low, previous_close; Alpha Vantage no market_cap, sector, industry,
\* country, currency, exchange; Finnhub no volume and no sector, and the
\* profile fields only when the profile request gave a profile.
C15_AdapterShape ==
    /\ op.name \in QuoteOps /\ result.t = "dict" =>
           /\ result.v["timestamp"].t = "instant"
           /\ result.v["source"] = Str(<<op.returned[1][1]>>)
    /\ op.name = "yahoo.get_stock_data" /\ result.t = "dict" =>
           /\ DOMAIN result.v = DOMAIN YahooFields \cup { "symbol", "name", "source", "timestamp" }
           /\ ShapedBy(result, YahooFields, op.input)
           /\ result.v["symbol"] = Str(ReplaceChar(op.symbol, ":", "."))
           /\ result.v["name"] = Get(op.input, "longName", result.v["symbol"])
    /\ op.name = "alpha_vantage.get_stock_data" /\ result.t = "dict" =>
           /\ DOMAIN result.v = DOMAIN AVFields \cup { "symbol", "name", "source", "timestamp" }
           /\ ShapedBy(result, AVFields, QuoteReceived)
           /\ result.v["symbol"] = Str(op.symbol)
           /\ result.v["name"] = Str(op.symbol)
    /\ op.name = "finnhub.get_stock_data" /\ result.t = "dict" =>
           /\ DOMAIN result.v = DOMAIN FHFields \cup { "symbol", "name", "source", "timestamp" }
                                \cup (IF ProfileUsed THEN DOMAIN FHProfileFields ELSE {})
           /\ ShapedBy(result, FHFields, op.input.quote.body)
           /\ ProfileUsed => ShapedBy(result, FHProfileFields, op.input.profile.body)
           /\ result.v["symbol"] = Str(op.symbol)
           /\ result.v["name"] = IF ProfileUsed
                                 THEN Get(op.input.profile.body, "name", Str(op.symbol))
                                 ELSE Str(op.symbol)

\* Finnhub returned a quote for "b:B" although the profile request failed:
\* the quote has no market_cap and its symbol is not in upper case
C15_Witness ==
    /\ op.name = "finnhub.get_stock_data"
    /\ op.input.profile = Exc
    /\ result.t = "dict"
    /\ "market_cap" \notin DOMAIN result.v
    /\ ~IsUpperCase(result.v["symbol"].v)

----------------------------------------------------------------------------
(* DataProcessor: market-cap categories, sector and portfolio rollups      *)

\* a whole number of dollars, held as millions and units below a million
\* (Python integers have no width)
Dollars(m, u) == [t |-> "dollars", m |-> m, u |-> u]

\* a > b
DollarsGreater(a, b) == a.m > b.m \/ (a.m = b.m /\ a.u > b.u)

\* a + b
DollarsAdd(a, b) ==
    Dollars(a.m + b.m + ((a.u + b.u) \div Million), (a.u + b.u) % Million)

\* a / b where the quotient is no whole number: whole + rem / den
Fraction(whole, rem, den) == [t |-> "fraction", whole |-> whole, rem |-> rem, den |-> den]

\* a / b on numbers in hundredths (b = 0 raises)
TrueDiv(a, b) ==
    IF b = 0 THEN Raise("ZeroDivisionError")
    ELSE LET n == IF b < 0 THEN 0 - a ELSE a
             d == IF b < 0 THEN 0 - b ELSE b
         IN  IF n % d = 0 THEN Num(n \div d) ELSE Fraction(Num(n \div d), n % d, d)

\* a / n for an amount of dollars a and a count n > 0
DollarsDiv(a, n) ==
    LET r == (a.m % n) * Million + a.u
    IN  IF r % n = 0 THEN Dollars(a.m \div n, r \div n)
        ELSE Fraction(Dollars(a.m \div n, r \div n), r % n, n)

\* the number n (a count, a length) as a value
Count(n) == Num(100 * n)

\* load_enhanced_stocks(): file is what json.load gives, or what open raises
DP_load_enhanced_stocks(file) == IF IsRaise(file) THEN List(<<>>) ELSE file

\* "Calculate market cap category"
DP_cap_category(market_cap) ==
    IF market_cap.t # "dollars" THEN Raise("TypeError")
    ELSE IF DollarsGreater(market_cap, Dollars(200000, 0)) THEN Str(<<"Mega Cap">>)
    ELSE IF DollarsGreater(market_cap, Dollars(10000, 0)) THEN Str(<<"Large Cap">>)
    ELSE IF DollarsGreater(market_cap, Dollars(2000, 0)) THEN Str(<<"Mid Cap">>)
    ELSE IF DollarsGreater(market_cap, Dollars(300, 0)) THEN Str(<<"Small Cap">>)
    ELSE Str(<<"Micro Cap">>)

\* "Calculate performance metrics": (change / (price - change)) * 100
DP_change_percent(price, change) ==
    IF price.t # "num" \/ change.t # "num" THEN Raise("TypeError")
    ELSE IF price.v > 0 THEN TrueDiv(change.v * 10000, price.v - change.v)
    ELSE Num(0)

\* the body of the loop of get_enhanced_stocks_data for one stock
DP_enhance(stock) ==
    LET category == DP_cap_category(Get(stock, "market_cap", Dollars(0, 0)))
        percent  == DP_change_percent(Get(stock, "price", Num(0)), Get(stock, "change", Num(0)))
    IN  IF IsRaise(category) THEN category
        ELSE IF IsRaise(percent) THEN percent
        ELSE Dict(("cap_category" :> category @@ "change_percent" :> percent) @@ stock.v)

\* get_enhanced_stocks_data(): the list of stocks, or what the loop raises
DP_get_enhanced_stocks_data(file) ==
    LET stocks == DP_load_enhanced_stocks(file)
    IN  ListOrRaise([i \in 1..Len(stocks.v) |-> DP_enhance(stocks.v[i])])

\* stock.get('sector', 'Unknown')
DP_sector(stock) == Get(stock, "sector", Str(<<"Unknown">>)).v

\* sum(s.get(k, 0) for s in stocks) on numbers in hundredths
RECURSIVE DP_sum(_, _)
DP_sum(stocks, k) ==
    IF stocks = <<>> THEN 0 ELSE Get(Head(stocks), k, Num(0)).v + DP_sum(Tail(stocks), k)

\* sum(s.get('market_cap', 0) for s in stocks)
RECURSIVE DP_sum_market_cap(_)
DP_sum_market_cap(stocks) ==
    IF stocks = <<>> THEN Dollars(0, 0)
    ELSE DollarsAdd(Get(Head(stocks), "market_cap", Dollars(0, 0)),
                    DP_sum_market_cap(Tail(stocks)))

\* the stocks of a sector, in the order of the list
DP_members(stocks, sector) == SelectSeq(stocks, LAMBDA st : DP_sector(st) = sector)

\* sector_data[sector] after both loops of get_sector_analysis
DP_sector_entry(members) ==
    Dict(  "count" :> Count(Len(members))
        @@ "total_market_cap" :> DP_sum_market_cap(members)
        @@ "avg_price" :> TrueDiv(DP_sum(members, "price"), Len(members))
        @@ "total_change" :> Num(DP_sum(members, "change"))
        @@ "stocks" :> List(members)
        @@ "avg_market_cap" :> DollarsDiv(DP_sum_market_cap(members), Len(members))
        @@ "avg_change" :> TrueDiv(DP_sum(members, "change"), Len(members)))

\* get_sector_analysis()
DP_get_sector_analysis(file) ==
    LET stocks == DP_get_enhanced_stocks_data(file)
    IN  IF IsRaise(stocks) THEN stocks
        ELSE Dict([sector \in { DP_sector(stocks.v[i]) : i \in 1..Len(stocks.v) } |->
                      DP_sector_entry(DP_members(stocks.v, sector))])

\* sector_performance[sector] of calculate_portfolio_performance
DP_sector_performance(members) ==
    Dict(  "count" :> Count(Len(members))
        @@ "total_change" :> Num(DP_sum(members, "change"))
        @@ "avg_change" :> TrueDiv(DP_sum(members, "change"), Len(members)))

\* "Trading analysis": trades is the frame load_trades_data() gives, its
\* columns and its rows
DP_column(trades, c) == [i \in 1..Len(trades.rows) |-> Dict(c :> trades.rows[i][c])]

DP_extreme(trades, c, greatest) ==
    IF c \notin trades.columns THEN None
    ELSE LET r == CHOOSE i \in 1..Len(trades.rows) :
                      \A j \in 1..Len(trades.rows) :
                          IF greatest THEN trades.rows[j][c].v <= trades.rows[i][c].v
                          ELSE trades.rows[i][c].v <= trades.rows[j][c].v
         IN  trades.rows[r][c]

DP_trading_stats(trades) ==
    IF trades.rows = <<>> THEN EmptyDict
    ELSE Dict(  "total_trades" :> Count(Len(trades.rows))
             @@ "total_volume" :> (IF "Volume" \in trades.columns
                                   THEN Num(DP_sum(DP_column(trades, "Volume"), "Volume"))
                                   ELSE Num(0))
             @@ "avg_trade_size" :> (IF "Volume" \in trades.columns
                                     THEN TrueDiv(DP_sum(DP_column(trades, "Volume"), "Volume"),
                                                  Len(trades.rows))
                                     ELSE Num(0))
             @@ "date_range" :> Dict(  "start" :> DP_extreme(trades, "Date", FALSE)
                                    @@ "end" :> DP_extreme(trades, "Date", TRUE)))

\* the rollup without the early return for an empty list of stocks
DP_calculate_portfolio_performance_zero(file, trades, t) ==
    LET stocks == DP_get_enhanced_stocks_data(file)
    IN  IF IsRaise(stocks) THEN stocks
        ELSE Dict(  "total_stocks" :> Count(Len(stocks.v))
                 @@ "total_market_cap" :> DP_sum_market_cap(stocks.v)
                 @@ "avg_change" :> (IF Len(stocks.v) > 0
                                     THEN TrueDiv(DP_sum(stocks.v, "change"), Len(stocks.v))
                                     ELSE Num(0))
                 @@ "sector_performance" :>
                        Dict([sector \in { DP_sector(stocks.v[i]) : i \in 1..Len(stocks.v) } |->
                                 DP_sector_performance(DP_members(stocks.v, sector))])
                 @@ "trading_stats" :> DP_trading_stats(trades)
                 @@ "last_updated" :> Timestamp(t))

\* calculate_portfolio_performance()
DP_calculate_portfolio_performance(file, trades, t) ==
    LET stocks == DP_get_enhanced_stocks_data(file)
    IN  IF IsRaise(stocks) THEN stocks
        ELSE IF ~Truthy(stocks) THEN EmptyDict
        ELSE Dict(  "total_stocks" :> Count(Len(stocks.v))
                 @@ "total_market_cap" :> DP_sum_market_cap(stocks.v)
                 @@ "avg_change" :> (IF Len(stocks.v) > 0
                                     THEN TrueDiv(DP_sum(stocks.v, "change"), Len(stocks.v))
                                     ELSE Num(0))
                 @@ "sector_performance" :>
                        Dict([sector \in { DP_sector(stocks.v[i]) : i \in 1..Len(stocks.v) } |->
                                 DP_sector_performance(DP_members(stocks.v, sector))])
                 @@ "trading_stats" :> DP_trading_stats(trades)
                 @@ "last_updated" :> Timestamp(t))

----------------------------------------------------------------------------
(* SpecRollups: the operations of DataProcessor on the universe the file    *)
(* enhanced_stocks_for_dashboard.json holds, one operation in a run         *)

\* the number of stocks of a universe
MaxStocks == 2

Stock(sector, market_cap, price, change) ==
    Dict("sector" :> Str(<<sector>>) @@ "market_cap" :> market_cap
         @@ "price" :> Num(price) @@ "change" :> Num(change))

\* 200_000_000_001 and 200_000_000_000 dollars
JustAboveMega == Dollars(200000, 1)

ExactlyMega == Dollars(200000, 0)

\* a stock whose change equals its price: the previous close was 0
Doubled == Stock("Tech", Dollars(300, 0), 100, 100)

StockSamples ==
    { Stock("Tech", Dollars(0, 10), 1000, 100),
      Stock("Tech", Dollars(0, 20), 500, 0 - 100),
      Stock("Energy", JustAboveMega, 15025, 25),
      Stock("Energy", ExactlyMega, 15025, 150),
      Stock("Energy", Dollars(10000, 0), 0, 0),
      Stock("Tech", Dollars(2000, 999999), 250, 0 - 300),
      Dict("symbol" :> Str(<<"A">>)),
      Dict("market_cap" :> Dollars(300, 1) @@ "price" :> Num(700)),
      Doubled }

Universes == UNION { [1..n -> StockSamples] : n \in 0..MaxStocks }

\* what the file of stocks holds, or that it cannot be opened
StockFiles == { Raise("FileNotFoundError") } \cup { List(u) : u \in Universes }

\* all_trades_raw_data.csv: no frame (the file cannot be read), a frame
\* with both columns, a frame without Volume
TradeFrames ==
    { [columns |-> {}, rows |-> <<>>],
      [columns |-> {"Date", "Volume"},
       rows |-> << ("Date" :> Num(19724) @@ "Volume" :> Num(500)),
                   ("Date" :> Num(19723) @@ "Volume" :> Num(200)) >>],
      [columns |-> {"Date"}, rows |-> << ("Date" :> Num(19723)) >>] }

\* data_processor.get_enhanced_stocks_data()
DPEnhanced(horizon, cost, files) ==
    /\ Start(horizon, cost)
    /\ \E file \in files :
          \E r \in { DP_get_enhanced_stocks_data(file) } :
              /\ Record(Op("data_processor.get_enhanced_stocks_data", <<>>,
                           [stocks |-> file], <<>>), <<>>, r)
              /\ UNCHANGED <<now, av, fh, db>>

\* data_processor.get_sector_analysis()
DPSectors(horizon, cost, files) ==
    /\ Start(horizon, cost)
    /\ \E file \in files :
          \E r \in { DP_get_sector_analysis(file) } :
              /\ Record(Op("data_processor.get_sector_analysis", <<>>,
                           [stocks |-> file], <<>>), <<>>, r)
              /\ UNCHANGED <<now, av, fh, db>>

\* data_processor.calculate_portfolio_performance()
DPPortfolio(horizon, cost, files, frames) ==
    /\ Start(horizon, cost)
    /\ \E file \in files, trades \in frames :
          \E r \in { DP_calculate_portfolio_performance(file, trades, now) } :
              /\ Record(Op("data_processor.calculate_portfolio_performance", <<>>,
                           [stocks |-> file, trades |-> trades], <<>>), <<>>, r)
              /\ UNCHANGED <<now, av, fh, db>>

RollupTick == Tick({MinSpacing}, Horizon)

\* the rollups keep no state between calls: a run is one operation
OneOperation == MaxOps

RollupEnhanced == DPEnhanced(Horizon, OneOperation, StockFiles)

RollupSectors == DPSectors(Horizon, OneOperation, StockFiles)

RollupPortfolio == DPPortfolio(Horizon, OneOperation, StockFiles, TradeFrames)

NextRollups ==
    \/ RollupTick
    \/ RollupEnhanced
    \/ RollupSectors
    \/ RollupPortfolio

SpecRollups == Init /\ [][NextRollups]_vars

----------------------------------------------------------------------------
(* Properties of the rollups *)

RollupOps == { "data_processor.get_enhanced_stocks_data", "data_processor.get_sector_analysis",
               "data_processor.calculate_portfolio_performance" }

\* the universe the operation read: the quotes of the file, none when the
\* file could not be opened
Universe == IF IsRaise(op.input.stocks) THEN <<>> ELSE op.input.stocks.v

\* the market cap of a quote in whole dollars, 0 when it has none
CapOf(quote) == IF "market_cap" \in DOMAIN quote.v THEN quote.v["market_cap"] ELSE Dollars(0, 0)

\* market_cap > b billion dollars
Above(quote, b) ==
    \/ CapOf(quote).m > 1000 * b
    \/ CapOf(quote).m = 1000 * b /\ CapOf(quote).u > 0

\* market_cap > 300 million dollars
AboveSmall(quote) == CapOf(quote).m > 300 \/ (CapOf(quote).m = 300 /\ CapOf(quote).u > 0)

CategoryOf(quote) ==
    IF Above(quote, 200) THEN <<"Mega Cap">>
    ELSE IF Above(quote, 10) THEN <<"Large Cap">>
    ELSE IF Above(quote, 2) THEN <<"Mid Cap">>
    ELSE IF AboveSmall(quote) THEN <<"Small Cap">>
    ELSE <<"Micro Cap">>

\* C16 as claimed: get_enhanced_stocks_data gives every quote of the universe
\* its one category by the strict thresholds 200B, 10B, 2B, 300M, a missing
\* market_cap counting as 0; 200_000_000_001 is Mega Cap and 200_000_000_000
\* is Large Cap.
C16_Bucketing ==
    op.name = "data_processor.get_enhanced_stocks_data" =>
        /\ result.t = "list"
        /\ Len(result.v) = Len(Universe)
        /\ \A i \in 1..Len(Universe) :
               /\ result.v[i].v["cap_category"] = Str(CategoryOf(Universe[i]))
               /\ CapOf(Universe[i]) = JustAboveMega
                      => result.v[i].v["cap_category"] = Str(<<"Mega Cap">>)
               /\ CapOf(Universe[i]) = ExactlyMega
                      => result.v[i].v["cap_category"] = Str(<<"Large Cap">>)

\* the sector of a quote, "Unknown" when it has none
SectorOf(quote) ==
    IF "sector" \in DOMAIN quote.v THEN quote.v["sector"].v ELSE <<"Unknown">>

\* the change of a quote in hundredths, 0 when it has none
ChangeOf(quote) == IF "change" \in DOMAIN quote.v THEN quote.v["change"].v ELSE 0

\* the quotes of the universe (their positions) that carry the sector
QuotesOf(sector) == { i \in 1..Len(Universe) : SectorOf(Universe[i]) = sector }

Everything == 1..Len(Universe)

\* the sum of f over S
RECURSIVE SumOver(_, _)
SumOver(S, f) ==
    IF S = {} THEN 0
    ELSE LET x == CHOOSE x \in S : TRUE IN f[x] + SumOver(S \ {x}, f)

\* the sum of change over the quotes S
TotalChange(S) == SumOver(S, [i \in S |-> ChangeOf(Universe[i])])

\* the sum of market_cap over the quotes S
TotalCap(S) ==
    LET millions == SumOver(S, [i \in S |-> CapOf(Universe[i]).m])
        units    == SumOver(S, [i \in S |-> CapOf(Universe[i]).u])
    IN  Dollars(millions + (units \div Million), units % Million)

\* avg = total / n for a total in hundredths
IsQuotient(avg, total, n) ==
    \/ avg.t = "num" /\ avg.v * n = total
    \/ /\ avg.t = "fraction"
       /\ avg.den = n /\ avg.rem \in 1..(n - 1)
       /\ avg.whole.v * n + avg.rem = total

\* avg = total / n for a total in dollars
IsDollarQuotient(avg, total, n) ==
    LET whole == IF avg.t = "fraction" THEN avg.whole ELSE avg
        rem   == IF avg.t = "fraction" THEN avg.rem ELSE 0
    IN  /\ avg.t \in { "dollars", "fraction" }
        /\ avg.t = "fraction" => avg.den = n /\ rem \in 1..(n - 1)
        /\ whole.m * n + ((whole.u * n + rem) \div Million) = total.m
        /\ (whole.u * n + rem) % Million = total.u

\* the counts of the entries of a rollup by sector, added up
CountsOf(sectors) == SumOver(DOMAIN sectors.v, [k \in DOMAIN sectors.v |-> sectors.v[k].v["count"].v])

TwoTech == << Stock("Tech", Dollars(0, 10), 1000, 100), Stock("Tech", Dollars(0, 20), 500, 0 - 100) >>

\* C17 as claimed: get_sector_analysis emits exactly the sectors carried by
\* some quote of the universe ("Unknown" for a quote without sector), for
\* each one the number of its quotes, the sums of market_cap and change
\* over them and those sums divided by the count; the counts add up to the
\* size of the universe; two Tech quotes with market caps 10 and 20 and
\* changes 1 and -1 give count 2, total_market_cap 30, avg_change 0.
C17_SectorRollup ==
    op.name = "data_processor.get_sector_analysis" =>
        /\ result.t = "dict"
        /\ DOMAIN result.v = { SectorOf(Universe[i]) : i \in Everything }
        /\ \A k \in DOMAIN result.v :
               /\ QuotesOf(k) # {}
               /\ result.v[k].v["count"] = Count(Cardinality(QuotesOf(k)))
               /\ result.v[k].v["total_market_cap"] = TotalCap(QuotesOf(k))
               /\ result.v[k].v["total_change"] = Num(TotalChange(QuotesOf(k)))
               /\ IsDollarQuotient(result.v[k].v["avg_market_cap"], TotalCap(QuotesOf(k)),
                                   Cardinality(QuotesOf(k)))
               /\ IsQuotient(result.v[k].v["avg_change"], TotalChange(QuotesOf(k)),
                             Cardinality(QuotesOf(k)))
        /\ CountsOf(result) = Count(Len(Universe)).v
        /\ Universe = TwoTech =>
               /\ result.v[<<"Tech">>].v["count"] = Count(2)
               /\ result.v[<<"Tech">>].v["total_market_cap"] = Dollars(0, 30)
               /\ result.v[<<"Tech">>].v["avg_change"] = Num(0)

PortfolioKeys == { "total_stocks", "total_market_cap", "avg_change" }

\* C18 as claimed: calculate_portfolio_performance over a universe that is
\* not empty gives total_stocks, the number of quotes, total_market_cap, the
\* plain sum of market_cap, and avg_change, the sum of change divided by the
\* number of quotes; the counts of its sectors add up to total_stocks.
C18_PortfolioRollup ==
    op.name = "data_processor.calculate_portfolio_performance" /\ Universe # <<>> =>
        /\ result.t = "dict"
        /\ PortfolioKeys \cup { "sector_performance" } \subseteq DOMAIN result.v
        /\ result.v["total_stocks"] = Count(Len(Universe))
        /\ result.v["total_market_cap"] = TotalCap(Everything)
        /\ IsQuotient(result.v["avg_change"], TotalChange(Everything), Len(Universe))
        /\ CountsOf(result.v["sector_performance"]) = result.v["total_stocks"].v

\* C19 as claimed: over the empty universe the portfolio rollup returns
\* total_stocks 0, total_market_cap 0 and avg_change 0 and raises nothing,
\* and the sector rollup returns an empty result.
C19_EmptyUniverseZeros ==
    /\ op.name = "data_processor.calculate_portfolio_performance" /\ Universe = <<>> =>
           /\ result.t = "dict"
           /\ PortfolioKeys \subseteq DOMAIN result.v
           /\ result.v["total_stocks"] = Num(0)
           /\ result.v["total_market_cap"] \in { Num(0), Dollars(0, 0) }
           /\ result.v["avg_change"] = Num(0)
    /\ op.name = "data_processor.get_sector_analysis" /\ Universe = <<>> =>
           result = EmptyDict

\* C19: over the empty universe the portfolio rollup returns the empty dict,
\* without total_stocks, total_market_cap or avg_change, and raises nothing,
\* and the sector rollup returns the empty dict.
C19_EmptyUniverseEmpty ==
    /\ op.name = "data_processor.calculate_portfolio_performance" /\ Universe = <<>> =>
           result = EmptyDict
    /\ op.name = "data_processor.get_sector_analysis" /\ Universe = <<>> =>
           result = EmptyDict

\* the portfolio rollup was computed over a file that holds no stock
C19_Witness ==
    /\ op.name = "data_processor.calculate_portfolio_performance"
    /\ op.input.stocks = List(<<>>)
    /\ result = EmptyDict

----------------------------------------------------------------------------
(* Properties of the record get_stock_detail answers with *)

\* the quote the last adapter asked returned to get_stock_detail
Returned == op.returned[Len(op.returned)][2]

\* C20 as claimed: when get_stock_detail attaches the historical series, the
\* response carries a composite with the series, and the record object the
\* adapter returned still holds exactly the fields and values it was
\* returned with.
C20_RecordNotMutated ==
    op.name = "get_stock_detail" /\ result.status = 200 =>
        /\ "historical" \in DOMAIN result.data.v
        /\ op.object = Returned

\* C20: get_stock_detail attaches the historical series to the record object
\* the adapter returned: after the handler that object has the key
\* "historical" besides the fields it was returned with, each with the value
\* it was returned with, and the data of the response is that object.
C20_RecordExtendedInPlace ==
    op.name = "get_stock_detail" /\ result.status = 200 =>
        /\ "historical" \notin DOMAIN Returned.v
        /\ DOMAIN op.object.v = DOMAIN Returned.v \cup { "historical" }
        /\ \A k \in DOMAIN Returned.v : op.object.v[k] = Returned.v[k]
        /\ op.object.v["historical"].t = "list"
        /\ result.data = op.object

\* Alpha Vantage returned the quote after Yahoo returned None, and the
\* handler attached the series to it
C20_Witness ==
    /\ op.name = "get_stock_detail"
    /\ result.status = 200
    /\ Len(op.returned) = 2
    /\ Returned.v["source"] = Str(<<AVName>>)
    /\ op.object # Returned
    /\ "historical" \in DOMAIN op.object.v

----------------------------------------------------------------------------
(* Properties of the performance metrics *)

\* the price of a quote in hundredths, 0 when it has none
PriceOf(quote) == IF "price" \in DOMAIN quote.v THEN quote.v["price"].v ELSE 0

\* |x|
Magnitude(x) == IF x < 0 THEN 0 - x ELSE x

\* percent is change / (price - change) * 100 in hundredths
IsChangePercent(percent, quote) ==
    LET prior == PriceOf(quote) - ChangeOf(quote)
        scaled == IF prior < 0 THEN 0 - ChangeOf(quote) * 10000 ELSE ChangeOf(quote) * 10000
    IN  /\ prior # 0
        /\ \/ percent.t = "num" /\ percent.v * Magnitude(prior) = scaled
           \/ /\ percent.t = "fraction"
              /\ percent.den = Magnitude(prior) /\ percent.rem \in 1..(percent.den - 1)
              /\ percent.whole.v * percent.den + percent.rem = scaled

\* C24 as claimed: get_enhanced_stocks_data raises nothing on a universe of
\* quotes with numeric price and change, also when the change of a quote
\* equals its price: each quote gets change_percent, change / (price - change)
\* * 100 when price > 0 and 0 otherwise, so the sector rollup and the
\* portfolio rollup raise nothing either.
C24_EnhanceNeverRaises ==
    /\ op.name \in RollupOps => ~IsRaise(result)
    /\ op.name = "data_processor.get_enhanced_stocks_data" =>
           /\ result.t = "list"
           /\ Len(result.v) = Len(Universe)
           /\ \A i \in 1..Len(Universe) :
                  IF PriceOf(Universe[i]) > 0
                  THEN IsChangePercent(result.v[i].v["change_percent"], Universe[i])
                  ELSE result.v[i].v["change_percent"] = Num(0)

----------------------------------------------------------------------------
(* Properties of the persistence sink *)

\* the rows of a table hold each value of the columns once
Unique(rows, columns) ==
    \A i, j \in 1..Len(rows) : (\A c \in columns : rows[i][c] = rows[j][c]) => i = j

\* the row of stock_prices for the symbol on the day of the clock
PriceRows(d, symbol, t) ==
    { i \in 1..Len(d.stock_prices) :
          d.stock_prices[i].symbol = symbol /\ d.stock_prices[i].date = DateOfTimestamp(t) }

\* C27: a request handled (a step that takes fuel) by get_stock_detail calls
\* store_stock_data once, as its last step before
\* the response, when a provider returned a quote, and a store that commits
\* leaves the source of that provider in the row of the symbol; it does not
\* call it and leaves the tables as they were when the three providers
\* returned None; whatever was stored, stocks holds one row per symbol and
\* stock_prices one row per symbol and date.
C27_StoredOncePerQuote ==
    [][ /\ fuel' # fuel /\ op'.name = "get_stock_detail" /\ result'.status = 200 =>
               /\ EventsOf("store")' = { Len(trace') }
               /\ Truthy(Returned')
               /\ \/ trace'[Len(trace')].what = "error" /\ db' = db
                  \/ /\ trace'[Len(trace')].what = "committed"
                     /\ \E i \in PriceRows(db', op'.symbol, now') :
                            db'.stock_prices[i].source = Returned'.v["source"]
                     /\ \E i \in 1..Len(db'.stocks) : db'.stocks[i].symbol = op'.symbol
        /\ fuel' # fuel /\ op'.name = "get_stock_detail" /\ result'.status = 404 =>
               /\ EventsOf("store")' = {}
               /\ Len(op'.returned) = 3
               /\ \A i \in 1..3 : op'.returned[i][2] = None
               /\ db' = db
        /\ Unique(db'.stocks, { "symbol" })
        /\ Unique(db'.stock_prices, { "symbol", "date" })
      ]_vars

\* the same symbol was stored by two requests, and each table holds one row
C27_Witness ==
    /\ op.name = "get_stock_detail"
    /\ result.status = 200
    /\ sent.stored = 2
    /\ Len(db.stocks) = 1
    /\ Len(db.stock_prices) = 1

\* the rows a step added to api_usage
UsageAdded == SubSeq(db'.api_usage, Len(db.api_usage) + 1, Len(db'.api_usage))

\* C23 as claimed: a request handled by get_stock_detail leaves one usage
\* event in api_usage for each adapter call it made, in the order of the
\* calls, with the provider, the symbol, and a success flag that tells
\* whether the call returned a quote.
C23_UsageEventPerCall ==
    [][ fuel' # fuel /\ op'.name = "get_stock_detail" =>
            /\ Len(db'.api_usage) >= Len(db.api_usage)
            /\ Len(UsageAdded) = Len(op'.returned)
            /\ \A i \in 1..Len(op'.returned) :
                   /\ UsageAdded[i].api_source = op'.returned[i][1]
                   /\ UsageAdded[i].symbol = op'.symbol
                   /\ UsageAdded[i].success = Truthy(op'.returned[i][2])
      ]_vars

----------------------------------------------------------------------------
(* Properties of the budget counters *)

\* the waits that the limiter of an adapter computed in the last operation
WaitsOf(who) ==
    { trace[i].dur : i \in { j \in 1..Len(trace) : trace[j].e = "sleep" /\ trace[j].who = who } }

\* C25: when the operations run one after another, the request counter of the
\* Finnhub adapter is always between 0 and WindowCap and the one of the Alpha
\* Vantage adapter between 0 and DailyCap; every wait the Finnhub limiter
\* computes is positive and at most WindowLength, every wait the Alpha Vantage
\* limiter computes is positive and at most MinSpacing
C25_CountersWithinCaps ==
    /\ fh.request_count \in 0..WindowCap
    /\ av.request_count \in 0..DailyCap
    /\ \A dur \in WaitsOf(FHName) : dur > 0 /\ dur <= WindowLength
    /\ \A dur \in WaitsOf(AVName) : dur > 0 /\ dur <= MinSpacing

\* the window of the Finnhub adapter was full some time after it began, the
\* limiter waited for the rest of it, and the request was counted in a new
\* window
C25_Witness ==
    /\ op.name \in { "finnhub.get_stock_data", "finnhub.get_historical_data" }
    /\ WaitsOf(FHName) # {}
    /\ \A dur \in WaitsOf(FHName) : dur < WindowLength
    /\ fh.request_count \in 1..2


----------------------------------------------------------------------------
(* SpecThreads: app.run serves every request on a thread of its own, and   *)
(* the handlers share the module-level adapters (app.py, lines 31-33). A   *)
(* step of a call is one statement of the adapter, or one read or write of *)
(* a budget field within it: threads are switched between any two of them. *)
(* Every thread handles one call                                           *)

ThreadSymbol == <<"A">>

At(c, pc) == calls[c].pc = pc

\* the call of thread c goes on with these locals replaced
Goto(c, locals) == calls' = [calls EXCEPT ![c] = locals @@ @]

\* the first statement of an operation
FirstStatement(name) ==
    CASE name = "get_stock_detail" -> [pc |-> "yahoo_info", who |-> YahooName]
      [] name \in AVOps -> [pc |-> "av_daily", who |-> AVName]
      [] name = "finnhub.get_stock_data" ->
             [pc |-> "fh_clock", who |-> FHName, endpoint |-> "/quote"]
      [] name = "finnhub.get_historical_data" ->
             [pc |-> "fh_clock", who |-> FHName, endpoint |-> "/stock/candle"]

\* the locals of _make_request and of the operation are gone when they return
Returned_locals ==
    [current_time |-> 0, wake |-> 0, request_count |-> 0, data |-> None, quote |-> None]

\* where a call goes on when the operation of adapter who has returned ret:
\* app.py, lines 62-70, for the handler; the caller has its value otherwise
AfterAdapter(call, who, ret) ==
    Returned_locals
    @@ (IF call.name # "get_stock_detail" THEN [pc |-> "done", ret |-> ret]
        ELSE IF Truthy(ret) THEN [pc |-> "respond", ret |-> ret]
        ELSE IF who = YahooName THEN [pc |-> "av_daily", who |-> AVName, ret |-> ret]
        ELSE IF who = AVName
        THEN [pc |-> "fh_clock", who |-> FHName, endpoint |-> "/quote", ret |-> ret]
        ELSE [pc |-> "respond", ret |-> ret])

\* a request arrives and is handed to thread c, the first that is free
Accept(c, names) ==
    /\ At(c, "idle")
    /\ c = "second" => ~At("first", "idle")
    /\ \E name \in names : Goto(c, [name |-> name] @@ FirstStatement(name))
    /\ UNCHANGED <<now, av, fh, db, op, trace, result, sent, fuel>>

\* yahoo_client.get_stock_data: ticker.info returns
YahooInfo(c, infos) ==
    /\ At(c, "yahoo_info")
    /\ \E info \in infos :
          \E r \in { Yahoo_get_stock_data(ThreadSymbol, now, info, 0) } :
              Goto(c, [requests |-> calls[c].requests + 1]
                      @@ AfterAdapter(calls[c], YahooName, r.ret))
    /\ UNCHANGED <<now, av, fh, db, op, trace, result, sent, fuel>>

\* alpha_vantage_client.py, lines 47 and 90: if self.request_count >= 25
AVDaily(c) ==
    /\ At(c, "av_daily")
    /\ IF AV_budget_exhausted(av)
       THEN Goto(c, AfterAdapter(calls[c], AVName, None))
       ELSE Goto(c, [pc |-> "av_clock"])
    /\ UNCHANGED <<now, av, fh, db, op, trace, result, sent, fuel>>

\* line 25: current_time = time.time()
AVClock(c) ==
    /\ At(c, "av_clock")
    /\ Goto(c, [pc |-> "av_test", current_time |-> now])
    /\ UNCHANGED <<now, av, fh, db, op, trace, result, sent, fuel>>

\* line 26: if current_time - self.last_request_time < 12
AVTest(c) ==
    /\ At(c, "av_test")
    /\ IF calls[c].current_time - av.last_request_time < MinSpacing
       THEN Goto(c, [pc |-> "av_sleep"])
       ELSE Goto(c, [pc |-> "av_get"])
    /\ UNCHANGED <<now, av, fh, db, op, trace, result, sent, fuel>>

\* line 27: time.sleep(12 - (current_time - self.last_request_time)) is called
AVSleep(c) ==
    /\ At(c, "av_sleep")
    /\ Goto(c, [pc |-> "av_wake", waits |-> calls[c].waits + 1,
                wake |-> now + (MinSpacing - (calls[c].current_time - av.last_request_time))])
    /\ UNCHANGED <<now, av, fh, db, op, trace, result, sent, fuel>>

\* time.sleep returning only once more than the time asked for has passed
AVWake_late(c) ==
    /\ At(c, "av_wake")
    /\ now > calls[c].wake
    /\ Goto(c, [pc |-> "av_get"])
    /\ UNCHANGED <<now, av, fh, db, op, trace, result, sent, fuel>>

\* line 27: time.sleep returns, not before the time asked for has passed
AVWake(c) ==
    /\ At(c, "av_wake")
    /\ now >= calls[c].wake
    /\ Goto(c, [pc |-> "av_get"])
    /\ UNCHANGED <<now, av, fh, db, op, trace, result, sent, fuel>>

\* line 30: requests.get sends the request
AVGet(c) ==
    /\ At(c, "av_get")
    /\ Goto(c, [pc |-> "av_response", requests |-> calls[c].requests + 1])
    /\ sent' = Sent_event(sent, Ev("http", AVName, calls[c].name, now, 0))
    /\ UNCHANGED <<now, av, fh, db, op, trace, result, fuel>>

\* line 30: requests.get returns the response, or raises (lines 39-41)
AVResponse(c, resps) ==
    /\ At(c, "av_response")
    /\ \E resp \in resps :
          IF resp.kind = "exc"
          THEN /\ Goto(c, [pc |-> "av_return", data |-> None])
               /\ sent' = Sent_event(sent, Ev("log", AVName, "error", now, 0))
               /\ sent'.errors <= MaxErrors
          ELSE /\ Goto(c, [pc |-> "av_stamp",
                           data |-> IF resp.status = 200 THEN resp.body ELSE None])
               /\ UNCHANGED sent
    /\ UNCHANGED <<now, av, fh, db, op, trace, result, fuel>>

\* the instant of the last request kept in one place for both limiters
AVStamp_shared(c) ==
    /\ At(c, "av_stamp")
    /\ av' = [av EXCEPT !.last_request_time = now]
    /\ fh' = [fh EXCEPT !.last_minute_start = now]
    /\ Goto(c, [pc |-> "av_load"])
    /\ UNCHANGED <<now, db, op, trace, result, sent, fuel>>

\* line 31: self.last_request_time = time.time()
AVStamp(c) ==
    /\ At(c, "av_stamp")
    /\ av' = [av EXCEPT !.last_request_time = now]
    /\ Goto(c, [pc |-> "av_load"])
    /\ UNCHANGED <<now, fh, db, op, trace, result, sent, fuel>>

\* line 32, self.request_count += 1: the attribute is loaded
AVLoad(c) ==
    /\ At(c, "av_load")
    /\ Goto(c, [pc |-> "av_store", request_count |-> av.request_count])
    /\ UNCHANGED <<now, av, fh, db, op, trace, result, sent, fuel>>

\* line 32, self.request_count += 1: the sum is stored
AVStore(c) ==
    /\ At(c, "av_store")
    /\ av' = [av EXCEPT !.request_count = calls[c].request_count + 1]
    /\ Goto(c, [pc |-> "av_return"])
    /\ UNCHANGED <<now, fh, db, op, trace, result, sent, fuel>>

\* lines 34-41, and the statements of the operation after _make_request
AVReturn(c) ==
    /\ At(c, "av_return")
    /\ \E ret \in { IF calls[c].name = "alpha_vantage.get_historical_data"
                    THEN TryExcept(AV_series_of(calls[c].data))
                    ELSE TryExcept(AV_quote_of(ThreadSymbol, calls[c].data, now)) } :
          Goto(c, AfterAdapter(calls[c], AVName, ret))
    /\ UNCHANGED <<now, av, fh, db, op, trace, result, sent, fuel>>

\* finnhub_client.py, line 25: current_time = time.time()
FHClock(c) ==
    /\ At(c, "fh_clock")
    /\ Goto(c, [pc |-> "fh_elapsed", current_time |-> now])
    /\ UNCHANGED <<now, av, fh, db, op, trace, result, sent, fuel>>

\* line 26: if current_time - self.last_minute_start >= 60
FHElapsed(c) ==
    /\ At(c, "fh_elapsed")
    /\ IF calls[c].current_time - fh.last_minute_start >= WindowLength
       THEN Goto(c, [pc |-> "fh_zero"])
       ELSE Goto(c, [pc |-> "fh_cap"])
    /\ UNCHANGED <<now, av, fh, db, op, trace, result, sent, fuel>>

\* line 27: self.request_count = 0
FHZero(c) ==
    /\ At(c, "fh_zero")
    /\ fh' = [fh EXCEPT !.request_count = 0]
    /\ Goto(c, [pc |-> "fh_start"])
    /\ UNCHANGED <<now, av, db, op, trace, result, sent, fuel>>

\* line 28: self.last_minute_start = current_time
FHStart(c) ==
    /\ At(c, "fh_start")
    /\ fh' = [fh EXCEPT !.last_minute_start = calls[c].current_time]
    /\ sent' = Sent_event(sent, Ev("reset", FHName, "elapsed", now, 0))
    /\ Goto(c, [pc |-> "fh_cap"])
    /\ UNCHANGED <<now, av, db, op, trace, result, fuel>>

\* line 30: if self.request_count >= 60
FHCap(c) ==
    /\ At(c, "fh_cap")
    /\ IF fh.request_count >= WindowCap
       THEN Goto(c, [pc |-> "fh_sleep"])
       ELSE Goto(c, [pc |-> "fh_get"])
    /\ UNCHANGED <<now, av, fh, db, op, trace, result, sent, fuel>>

\* lines 31-33: sleep_time is computed, and time.sleep is called if it is
\* positive
FHSleep(c) ==
    /\ At(c, "fh_sleep")
    /\ \E sleep_time \in { WindowLength - (calls[c].current_time - fh.last_minute_start) } :
          IF sleep_time > 0
          THEN Goto(c, [pc |-> "fh_wake", waits |-> calls[c].waits + 1,
                        wake |-> now + sleep_time])
          ELSE Goto(c, [pc |-> "fh_get"])
    /\ UNCHANGED <<now, av, fh, db, op, trace, result, sent, fuel>>

\* line 33: time.sleep returns
FHWake(c) ==
    /\ At(c, "fh_wake")
    /\ now >= calls[c].wake
    /\ Goto(c, [pc |-> "fh_rezero"])
    /\ UNCHANGED <<now, av, fh, db, op, trace, result, sent, fuel>>

\* line 34: self.request_count = 0
FHRezero(c) ==
    /\ At(c, "fh_rezero")
    /\ fh' = [fh EXCEPT !.request_count = 0]
    /\ Goto(c, [pc |-> "fh_restart"])
    /\ UNCHANGED <<now, av, db, op, trace, result, sent, fuel>>

\* line 35: self.last_minute_start = time.time()
FHRestart(c) ==
    /\ At(c, "fh_restart")
    /\ fh' = [fh EXCEPT !.last_minute_start = now]
    /\ sent' = Sent_event(sent, Ev("reset", FHName, "slept", now, 0))
    /\ Goto(c, [pc |-> "fh_get"])
    /\ UNCHANGED <<now, av, db, op, trace, result, fuel>>

\* line 42: requests.get sends the request
FHGet(c) ==
    /\ At(c, "fh_get")
    /\ Goto(c, [pc |-> "fh_response", requests |-> calls[c].requests + 1])
    /\ sent' = Sent_event(sent, Ev("http", FHName, calls[c].endpoint, now, 0))
    /\ UNCHANGED <<now, av, fh, db, op, trace, result, fuel>>

\* line 42: requests.get returns the response, or raises (lines 50-52)
FHResponse(c, quotes, profiles, candles) ==
    /\ At(c, "fh_response")
    /\ \E resp \in (CASE calls[c].endpoint = "/quote" -> quotes
                      [] calls[c].endpoint = "/stock/profile2" -> profiles
                      [] calls[c].endpoint = "/stock/candle" -> candles) :
          IF resp.kind = "exc"
          THEN /\ Goto(c, [pc |-> "fh_return", data |-> None])
               /\ sent' = Sent_event(sent, Ev("log", FHName, "error", now, 0))
               /\ sent'.errors <= MaxErrors
          ELSE /\ Goto(c, [pc |-> "fh_load",
                           data |-> IF resp.status = 200 THEN resp.body ELSE None])
               /\ UNCHANGED sent
    /\ UNCHANGED <<now, av, fh, db, op, trace, result, fuel>>

\* line 43, self.request_count += 1: the attribute is loaded
FHLoad(c) ==
    /\ At(c, "fh_load")
    /\ Goto(c, [pc |-> "fh_store", request_count |-> fh.request_count])
    /\ UNCHANGED <<now, av, fh, db, op, trace, result, sent, fuel>>

\* line 43, self.request_count += 1: the sum is stored
FHStore(c) ==
    /\ At(c, "fh_store")
    /\ fh' = [fh EXCEPT !.request_count = calls[c].request_count + 1]
    /\ Goto(c, [pc |-> "fh_return"])
    /\ UNCHANGED <<now, av, db, op, trace, result, sent, fuel>>

\* lines 45-52, and the statements of the operation after _make_request:
\* get_stock_data goes on to the profile when the quote has a price
FHReturn(c) ==
    /\ At(c, "fh_return")
    /\ \E call \in { calls[c] } :
          CASE call.endpoint = "/quote" ->
                   IF (Truthy(call.data) /\ InRaises(call.data)) \/ FH_missing_price(call.data)
                   THEN Goto(c, AfterAdapter(call, FHName, None))
                   ELSE Goto(c, [pc |-> "fh_clock", endpoint |-> "/stock/profile2",
                                 quote |-> call.data] @@ Returned_locals)
            [] call.endpoint = "/stock/profile2" ->
                   Goto(c, AfterAdapter(call, FHName,
                               TryExcept(FH_stock_data(ThreadSymbol, call.quote, call.data, now))))
            [] call.endpoint = "/stock/candle" ->
                   Goto(c, AfterAdapter(call, FHName, TryExcept(FH_series_of(call.data))))
    /\ UNCHANGED <<now, av, fh, db, op, trace, result, sent, fuel>>

\* app.py, lines 70-87: the handler responds
HandlerResponds(c, commits) ==
    /\ At(c, "respond")
    /\ \E dbok \in commits :
          \E r \in { Respond([now |-> now, stock_data |-> calls[c].ret, events |-> <<>>],
                             db, ThreadSymbol, [dbok |-> dbok]) } :
              /\ db' = r.db
              /\ sent' = Sent_events(sent, r.events)
              /\ Goto(c, [pc |-> "done", ret |-> r.response])
    /\ UNCHANGED <<now, av, fh, op, trace, result, fuel>>



\* the clock reaches the instant a sleeping thread is to be woken at
Elapse ==
    /\ \E c \in Callers :
          /\ calls[c].pc \in { "av_wake", "fh_wake" }
          /\ calls[c].wake > now
          /\ now' = calls[c].wake
    /\ UNCHANGED <<av, fh, db, op, trace, result, sent, fuel, calls>>

\* the statement thread c is at is executed
Step(c, infos, avresps, fhquotes, fhprofiles, fhcandles, commits) ==
    \/ YahooInfo(c, infos)
    \/ AVDaily(c)
    \/ AVClock(c)
    \/ AVTest(c)
    \/ AVSleep(c)
    \/ AVWake(c)
    \/ AVGet(c)
    \/ AVResponse(c, avresps)
    \/ AVStamp(c)
    \/ AVLoad(c)
    \/ AVStore(c)
    \/ AVReturn(c)
    \/ FHClock(c)
    \/ FHElapsed(c)
    \/ FHZero(c)
    \/ FHStart(c)
    \/ FHCap(c)
    \/ FHSleep(c)
    \/ FHWake(c)
    \/ FHRezero(c)
    \/ FHRestart(c)
    \/ FHGet(c)
    \/ FHResponse(c, fhquotes, fhprofiles, fhcandles)
    \/ FHLoad(c)
    \/ FHStore(c)
    \/ FHReturn(c)
    \/ HandlerResponds(c, commits)

ThreadCalls ==
    { "get_stock_detail", "alpha_vantage.get_stock_data", "finnhub.get_stock_data",
      "finnhub.get_historical_data" }

ThreadInfos == { None, YahooFull }

ThreadAVQuotes == { Exc, Http(200, AVGoodQuote) }

ThreadFHQuotes == { Exc, Http(200, FHGoodQuote) }

ThreadFHProfiles == { Http(200, FHGoodProfile) }

ThreadFHCandles ==
    { Http(200, Candles(<<Num(Day1)>>, Prices(1), Prices(1), Prices(1), Prices(1), Prices(1))) }

\* the adapters after an earlier use by one caller at a time, as SpecLimiters
\* and SpecDaily arrive at: avn requests of the Alpha Vantage adapter, issued
\* MinSpacing apart from StartTime on, fhn requests of the Finnhub adapter, all
\* in the window begun at StartTime, and the clock late seconds after the last
Earlier(avn, fhn, late) ==
    LET last == StartTime + MinSpacing * (avn - 1)
    IN  /\ now = (IF avn = 0 THEN StartTime ELSE last) + late
        /\ av = (IF avn = 0 THEN AV_init
                 ELSE [request_count |-> avn, last_request_time |-> last])
        /\ fh = [request_count |-> fhn, last_minute_start |-> StartTime]
        /\ sent = [Sent_init EXCEPT !.av_total = avn,
                                    !.av_last_at = IF avn = 0 THEN @ ELSE last,
                                    !.av_min_gap = IF avn < 2 THEN @ ELSE MinSpacing,
                                    !.fh_window = fhn]

\* nothing was requested; a request of each adapter was just answered and the
\* window is one short of full; the window is full and part of it has passed;
\* the daily budget is one short of used up and the window has elapsed
EarlierUses ==
    { <<0, 0, 0>>, <<1, WindowCap - 1, 0>>, <<1, WindowCap, MinSpacing>>,
      <<DailyCap - 1, WindowCap, 0>> }

InitThreads ==
    /\ \E e \in EarlierUses : Earlier(e[1], e[2], e[3])
    /\ db = DB_init
    /\ op = Op("init", <<>>, None, <<>>)
    /\ trace = <<>>
    /\ result = None
    /\ fuel = MaxOps
    /\ calls = [c \in Callers |-> NotStarted]

ThreadsAccept == \E c \in Callers : Accept(c, ThreadCalls)

ThreadsStep ==
    \E c \in Callers :
        Step(c, ThreadInfos, ThreadAVQuotes, ThreadFHQuotes, ThreadFHProfiles, ThreadFHCandles,
             {TRUE})

NextThreads ==
    \/ Elapse
    \/ ThreadsAccept
    \/ ThreadsStep

SpecThreads == InitThreads /\ [][NextThreads]_vars

\* SpecTermination: the program does not stop while something can happen: as
\* long as some thread can execute its next statement (the scheduler runs it,
\* and requests.get, called with timeout=10, returns or raises) or a sleeping
\* thread waits for the clock, a statement is executed or the clock moves on
SpecTermination == SpecThreads /\ WF_vars(Elapse \/ ThreadsStep)

----------------------------------------------------------------------------
(* Properties of the calls that interleave *)

\* thread c executes the statement at pc in this step
Executes(c, pc) == calls[c].pc = pc /\ calls'[c].pc # pc

\* C21: however the statements of the calls that run at once on an adapter
\* interleave, no increment of a request counter is lost, the Finnhub adapter
\* issues at most WindowCap requests in a window, the Alpha Vantage adapter
\* issues at most DailyCap requests, and never two of them less than
\* MinSpacing seconds apart
C21_BudgetAtomic ==
    [][ /\ \A c \in Callers :
               /\ Executes(c, "av_store") => av'.request_count = av.request_count + 1
               /\ Executes(c, "fh_store") => fh'.request_count = fh.request_count + 1
        /\ sent'.fh_window <= WindowCap
        /\ sent'.av_total <= DailyCap
        /\ sent'.av_min_gap >= 0 => sent'.av_min_gap >= MinSpacing ]_vars

\* thread c is blocked in time.sleep
Asleep(c) == calls[c].pc \in { "av_wake", "fh_wake" } /\ now < calls[c].wake

\* the statements of an adapter up to the one that sends the request
Approach(c) ==
    \/ AVDaily(c) \/ AVClock(c) \/ AVTest(c) \/ AVSleep(c) \/ AVWake(c) \/ AVGet(c)
    \/ FHClock(c) \/ FHElapsed(c) \/ FHZero(c) \/ FHStart(c) \/ FHCap(c) \/ FHSleep(c)
    \/ FHWake(c) \/ FHRezero(c) \/ FHRestart(c) \/ FHGet(c)

\* thread c is within an adapter and has not sent its request
Approaching(c) ==
    calls[c].pc \in { "av_daily", "av_clock", "av_test", "av_sleep", "av_wake", "av_get",
                      "fh_clock", "fh_elapsed", "fh_zero", "fh_start", "fh_cap", "fh_sleep",
                      "fh_wake", "fh_rezero", "fh_restart", "fh_get" }

\* the budgets other than the one of adapter who are left as they were
OthersKept(who) ==
    /\ who # AVName => av' = av
    /\ who # FHName => fh' = fh

\* C22: a step of a call within an adapter, the step that begins its sleep and
\* the one that ends it included, changes no budget but that adapter's; and
\* while a call sleeps in the limiter of one adapter, a call that is on its
\* way to a request of another adapter and does not sleep itself is never
\* held up: its next statement can be executed
C22_BudgetsLocal ==
    [][ /\ \A c \in Callers : calls'[c] # calls[c] => OthersKept(calls[c].who)
        /\ \A c, d \in Callers :
               Asleep(c) /\ Approaching(d) /\ ~Asleep(d) /\ calls[d].who # calls[c].who
                   => ENABLED Approach(d) ]_vars

\* the first thread sleeps in the limiter of the Alpha Vantage adapter, and
\* the second has meanwhile sent a request of the Finnhub adapter and counted
\* it: the budget of Alpha Vantage is what the sleeper found
C22_Witness ==
    /\ Asleep("first") /\ calls["first"].who = AVName
    /\ calls["second"].who = FHName /\ calls["second"].pc = "fh_return"
    /\ calls["second"].requests = 1
    /\ fh.request_count = WindowCap
    /\ av = [request_count |-> 1, last_request_time |-> StartTime]
    /\ now = StartTime

----------------------------------------------------------------------------
(* Properties of termination *)

\* the interval of the limiter of an adapter
Interval(who) == IF who = AVName THEN MinSpacing ELSE WindowLength

\* what a call that has ended returned: the handler a response of status 200
\* with the quote or of status 404, an operation of an adapter a record, a
\* series or None
Ended(call) ==
    IF call.name = "get_stock_detail"
    THEN \/ call.ret.status = 200 /\ Truthy(call.ret.data)
         \/ call.ret.status = 404 /\ call.ret.data = None
    ELSE call.ret.t \in { "None", "dict", "list" }

\* C26: a call that has begun ends, the handler with a quote or with 404 and
\* an operation of an adapter with a value or None, whatever the budgets and
\* the other thread do; it sleeps at most once for each request it sends, and
\* what remains of a sleep is at most the interval of the limiter and the
\* time passed since the call read the clock
C26_Terminates ==
    /\ [](\A c \in Callers :
             /\ calls[c].waits <= calls[c].requests + 1
             /\ calls[c].pc \in { "av_response", "fh_response", "done" } =>
                    calls[c].waits <= calls[c].requests
             /\ calls[c].pc \in { "av_wake", "fh_wake" } =>
                    calls[c].wake - now <= Interval(calls[c].who) + (now - calls[c].current_time)
             /\ calls[c].pc = "done" => Ended(calls[c]))
    /\ \A c \in Callers : calls[c].pc # "idle" ~> calls[c].pc = "done"

\* the handler has answered with a quote after it slept in the limiters of
\* both adapters
C26_Witness ==
    \E c \in Callers :
        /\ calls[c].name = "get_stock_detail" /\ calls[c].pc = "done"
        /\ calls[c].ret.status = 200
        /\ calls[c].waits = 2


============================================================================
